---- MODULE Spec2Model ----
(***************************************************************************)
(* Verification model of the Webex administration scripts: the bounded     *)
(* retry executor (_get / _put / backoff_request), the Link-header and     *)
(* offset/total pagers, the page-body item extraction, the group           *)
(* membership operations and the person resolver.                          *)
(*                                                                         *)
(* Durations are integers in microseconds (1.0 s = 1000000), so that the   *)
(* backoff series 1.0, 1.6, 2.56, ... is exact.                            *)
(***************************************************************************)
EXTENDS Integers, Sequences, FiniteSets, TLC

VARIABLES
    \* ---- retry executor (one call of _get / _put / backoff_request)
    exKind,       \* which executor runs: "_get" (range(5)) or "backoff_request" (range(6))
    exPc,         \* "idle" | "loop" | "returned" | "raised"
    exAttempt,    \* iterations of the for loop completed so far
    exRequests,   \* HTTP requests issued by this call
    backoff,      \* the local variable backoff, in microseconds
    r,            \* the local variable r: the last response received
    responses,    \* the responses the server has given to this call, in order
    sleeps,       \* the arguments of time.sleep, in order, in microseconds
    \* ---- Link-header pager (paginate / get_pages) and the server it reads
    lkKind,       \* "paginate" | "listDirectoryNumbers" | "list_webex_pstn_routing"
    lkSizes,      \* server: the number of items on each page, in page order
    lkKey,        \* server: the container key of the page bodies
    lkPc,         \* "idle" | "fetch" | "done" | "raised"
    url,          \* the local variable url (a string, as a sequence of tokens)
    params,       \* the local variable params: "initial" or "None"
    lkLog,        \* the page requests sent: [url, params] in order
    lkStatuses,   \* the final status of each page request, in order
    lkYielded,    \* the items yielded to the consumer, in order
    lkError,      \* the error that left the fetch: [url, status], or NoError
    \* ---- offset/total pager (list_all_groups / get_group_members, groupListv02.py)
    ofKind,       \* "list_all_groups" | "get_group_members"
    ofServer,     \* server: [n, size, conv, key], see OffsetServers
    ofPc,         \* "idle" | "fetch" | "done" | "raised"
    ofStart,      \* params["startIndex"]
    out,          \* the local list out
    ofLog,        \* the startIndex of each request sent, in order
    ofPages,      \* per answered request: [start, per, total] as the loop read them
    ofStatuses,   \* the final status of each request, in order
    \* ---- item extraction from one page body
    xtSite,       \* the extraction site: "paginate" | "get_group_members" | "list_org_numbers"
    data,         \* the decoded page body
    xtPc,         \* "idle" | "read" | "done"
    items,        \* the local variable items / batch
    \* ---- group membership operations (groupMemberACD.py / groupMemberAD.py)
    gmScript,     \* "ACD" (POST/DELETE on /v1/groups) | "AD" (SCIM PATCH)
    gmGroups,     \* server: group id -> [exists, source, members]
    gmPolicy,     \* server: [pageSize, addExisting, removeMissing], see GroupPolicies
    gmCalls,      \* the calls made so far: [op, group, person, before, ok, detail]
    \* ---- person resolver (resolve_person, get_email_for_person)
    rsScript,     \* "ACD" | "AD"
    rsPeople,     \* server: person id -> the person's emails, in order
    PERSON_EMAIL_CACHE,  \* _PERSON_EMAIL_CACHE: person id -> email
    rsLookups,    \* the network lookups issued: [by, key, status] in order
    rsCalls,      \* the resolve_person calls: [personId, email, pid, found, lookups]
    rsUpdates,    \* the update_person calls: [person, display, email, status, ok, detail]
    \* ---- numbers export (export_numbers, listPSTNAndRoutingNumbersv02.py)
    enPeople,     \* server: the telephony people, served in pages of page_size
    enKey,        \* server: the container key of the people pages
    enNumbers,    \* server: the numbers, served in pages of at most enCap
    enCap,        \* server: the most items it puts on one numbers page
    enPc,         \* "idle" | "build" | "rows" | "done" | "raised"
    enStart,      \* the local variable start of build_reverse_person_index
    phone_to_person,       \* _phone_to_person: number -> <<personId, displayName>>
    ext_to_person,         \* _ext_to_person: extension -> <<personId, displayName>>
    people_cache,          \* _people_cache: owner id -> name
    workspace_cache,       \* _workspace_cache: owner id -> name
    generic_owner_cache,   \* _generic_owner_cache: owner id -> name
    enNumStart,   \* the local variable start of list_org_numbers
    enPending,    \* the items of the current numbers page not yet yielded
    enShort,      \* len(items) < PAGE_MAX for the current numbers page
    enEvents,     \* the requests sent and rows handled, in order
    enWritten,    \* the rows written to the output CSV, in order
    \* ---- group lookup by name (groupList.py, groupListv02.py)
    mtScript,     \* "groupList" | "groupListv02"
    mtGroups,     \* server: the groups [id, displayName] in server-returned order
    mtOrg,        \* whether ORG_ID is set
    mtFinds,      \* the lookups made: [name, selected] in order
    \* ---- email-to-id scripts (userDetails.py, getPersonID.py)
    e2Script,     \* "userDetails" | "getPersonID"
    e2Env,        \* what the run finds: [token, file, header] present or not
    e2Input,      \* the rows of the input CSV: [email, personid]
    e2Pc,         \* "idle" | "start" | "rows" | "write" | "details" | "exited"
    e2I,          \* the number of input rows handled so far
    e2Attempt,    \* userDetails.py: the loop variable attempt
    e2Second,     \* userDetails.py: the next GET is the one after a 429
    e2Rows,       \* pid_rows (userDetails.py) / rows as updated (getPersonID.py)
    e2Requests,   \* the GETs sent: [row, email] in order
    e2Final,      \* per row handled: the response its lookup ended with, or "skip"
    e2File,       \* the rows of the output CSV, or NotWritten
    e2Exit,       \* the exit code of the process, -1 while it runs
    \* ---- batch run of groupMemberACD.py / groupMemberAD.py (main and __main__)
    btScript,     \* "ACD" | "AD"
    btEnv,        \* what the run finds: [token, org, file] present or not
    btHeaders,    \* the columns of the header line of group_members.csv
    btLen,        \* the number of data rows of group_members.csv
    btGroup,      \* server: the group "g1", [exists, source, members]
    btPeople,     \* server: person id -> the person's emails, in order
    btCache,      \* _PERSON_EMAIL_CACHE of the run
    btPc,         \* "idle" | "start" | "rows" | "finally" | "exited"
    btInput,      \* the rows handled so far, as csv.DictReader gave them
    btNets,       \* per row handled: how the network behaved for its requests
    ops,          \* the local list ops of main
    btEnd,        \* how main ended: "" (running) | "returned" | "died" | "raised"
    btRequests,   \* the HTTP requests sent: [row, method, what] in order
    all_ops,      \* the variable all_ops of the entry point
    btLog,        \* the rows of the log CSV, or LogNotWritten
    btExit,       \* the exit code of the process, -1 while it runs
    \* ---- one call of is_member against an arbitrary server
    imPc,         \* "idle" | "loop" | "returned"
    imStart,      \* params["startIndex"]
    imLog,        \* the startIndex of each request sent, in order
    imData,       \* the body of the last 200 response, see MemberBodies
    imResult,     \* the value returned, FALSE until then
    \* ---- the voicemail scripts that read the personid column
    vmScript,     \* "vm2emEnaDis" | "listUserVoicemailParameters"
    vmArgs,       \* the command line: [vm, mode, dest, mwi, external, notify, notify_dest]
    vmInput,      \* the rows of email2personID.csv: [email, personid]
    vmI,          \* rows handled so far
    vmPc,         \* "idle" | "rows" | "end" | "exited"
    vmRequests,   \* the HTTP requests sent: [method, person_id, body] in order
    vmServer,     \* server: the voicemail settings of person "id_a", see NoSettings
    rows_out,     \* the rows collected for the output file
    vmTally,      \* the counters [ok, fail] of vm2emEnaDis.py
    vmExit,       \* the exit code of the process, -1 while it runs
    \* ---- the group report (main of groupList.py / groupListv02.py)
    grScript,     \* "groupList" | "groupListv02"
    grGroups,     \* server: the groups [id, displayName] in server-returned order
    grMembers,    \* server: group id -> the person ids of its members
    grOrg,        \* whether ORG_ID is set
    grNames,      \* the requested names, in input order
    grI,          \* names handled so far
    grPc,         \* "idle" | "names" | "write" | "done"
    groups_out,   \* the local list groups_out: [groupId, memberCount]
    members_out,  \* the local list members_out: [groupId, personId]
    grFetched,    \* per row of groups_out: the number of members fetched for it
    grFile,       \* the rows of groups.csv, or ReportNotWritten
    \* ---- the writing of an output CSV and a reader of its path
    wrScript,     \* "userDetails" | "listDirectoryNumbers" | "groupMemberACD"
    wrRows,       \* the rows the run writes, in order
    wrOld,        \* the content of the output path before the run, or NoFile
    wrOut,        \* the content of the output path: its lines, or NoFile
    wrTmp,        \* the content of path + ".tmp": its lines, or NoFile
    wrBuf,        \* the lines the writer holds in its buffer
    wrI,          \* lines handed to the writer so far
    wrPc,         \* "idle" | "open" | "lines" | "replace" | "done"
    wrSeen        \* what a reader of the output path has read, in order

execVars == <<exKind, exPc, exAttempt, exRequests, backoff, r, responses, sleeps>>

linkVars == <<lkKind, lkSizes, lkKey, lkPc, url, params, lkLog, lkStatuses,
              lkYielded, lkError>>

offsetVars == <<ofKind, ofServer, ofPc, ofStart, out, ofLog, ofPages, ofStatuses>>

extractVars == <<xtSite, data, xtPc, items>>

groupVars == <<gmScript, gmGroups, gmPolicy, gmCalls>>

resolveVars == <<rsScript, rsPeople, PERSON_EMAIL_CACHE, rsLookups, rsCalls,
                 rsUpdates>>

exportVars == <<enPeople, enKey, enNumbers, enCap, enPc, enStart, phone_to_person,
                ext_to_person, people_cache, workspace_cache,
                generic_owner_cache, enNumStart, enPending, enShort, enEvents,
                enWritten>>

matchVars == <<mtScript, mtGroups, mtOrg, mtFinds>>

emailVars == <<e2Script, e2Env, e2Input, e2Pc, e2I, e2Attempt, e2Second, e2Rows,
               e2Requests, e2Final, e2File, e2Exit>>

batchVars == <<btScript, btEnv, btHeaders, btLen, btGroup, btPeople, btCache,
               btPc, btInput, btNets, ops, btEnd, btRequests, all_ops, btLog,
               btExit>>

memberVars == <<imPc, imStart, imLog, imData, imResult>>

voiceVars == <<vmScript, vmArgs, vmInput, vmI, vmPc, vmRequests, vmServer, rows_out,
               vmTally, vmExit>>

reportVars == <<grScript, grGroups, grMembers, grOrg, grNames, grI, grPc, groups_out,
                members_out, grFetched, grFile>>

writeVars == <<wrScript, wrRows, wrOld, wrOut, wrTmp, wrBuf, wrI, wrPc, wrSeen>>

vars == <<execVars, linkVars, offsetVars,
         extractVars, groupVars, resolveVars,
         exportVars, matchVars, emailVars,
         batchVars, memberVars, voiceVars,
         reportVars, writeVars>>

(***************************************************************************)
(* Python string and sequence operations, on strings held as sequences of  *)
(* tokens                                                                  *)
(***************************************************************************)
Min(a, b) == IF a <= b THEN a ELSE b
Max(a, b) == IF a >= b THEN a ELSE b

\* str.split(sep): the parts between the separators, at least one part
RECURSIVE SplitOn(_, _)
SplitOn(s, sep) ==
    IF \A i \in 1..Len(s) : s[i] # sep
      THEN <<s>>
      ELSE LET i == CHOOSE k \in 1..Len(s) :
                        s[k] = sep /\ \A j \in 1..(k - 1) : s[j] # sep
           IN  <<SubSeq(s, 1, i - 1)>> \o SplitOn(SubSeq(s, i + 1, Len(s)), sep)

\* str.find(tok): 0-based index of the first occurrence, -1 when there is none
Find(s, tok) ==
    IF \E i \in 1..Len(s) : s[i] = tok
      THEN (CHOOSE i \in 1..Len(s) : s[i] = tok /\ \A j \in 1..(i - 1) : s[j] # tok) - 1
      ELSE -1

\* s[a:b] with Python's treatment of negative and out-of-range indices
PySlice(s, a, b) ==
    LET n  == Len(s)
        aa == IF a < 0 THEN Max(n + a, 0) ELSE Min(a, n)
        bb == IF b < 0 THEN Max(n + b, 0) ELSE Min(b, n)
    IN  SubSeq(s, aa + 1, bb)

\* str.strip()
RECURSIVE Strip(_)
Strip(s) ==
    IF s = << >> THEN s
    ELSE IF s[1] = " " THEN Strip(Tail(s))
    ELSE IF s[Len(s)] = " " THEN Strip(SubSeq(s, 1, Len(s) - 1))
    ELSE s

\* tok in s
Contains(s, tok) == \E i \in 1..Len(s) : s[i] = tok

RECURSIVE SumSeq(_)
SumSeq(ns) == IF ns = << >> THEN 0 ELSE Head(ns) + SumSeq(Tail(ns))

(***************************************************************************)
(* The state of a component that is not running                            *)
(***************************************************************************)
NoResponse == [status |-> 0, retryAfter |-> "absent"]
NoError == [url |-> << >>, status |-> 0]

ExecIdle ==
    /\ exKind = "none"
    /\ exPc = "idle"
    /\ exAttempt = 0
    /\ exRequests = 0
    /\ backoff = 0
    /\ r = NoResponse
    /\ responses = << >>
    /\ sleeps = << >>

LinkIdle ==
    /\ lkKind = "none"
    /\ lkSizes = << >>
    /\ lkKey = "none"
    /\ lkPc = "idle"
    /\ url = << >>
    /\ params = "None"
    /\ lkLog = << >>
    /\ lkStatuses = << >>
    /\ lkYielded = << >>
    /\ lkError = NoError

NoServer == [n |-> 0, size |-> 0, conv |-> "none", key |-> "none"]

OffsetIdle ==
    /\ ofKind = "none"
    /\ ofServer = NoServer
    /\ ofPc = "idle"
    /\ ofStart = 0
    /\ out = << >>
    /\ ofLog = << >>
    /\ ofPages = << >>
    /\ ofStatuses = << >>

ExtractIdle ==
    /\ xtSite = "none"
    /\ data = << >>
    /\ xtPc = "idle"
    /\ items = << >>

GroupIdle ==
    /\ gmScript = "none"
    /\ gmGroups = << >>
    /\ gmPolicy = [pageSize |-> 0, addExisting |-> "none", removeMissing |-> 0]
    /\ gmCalls = << >>

EmptyCache == [x \in {} |-> ""]

ResolveIdle ==
    /\ rsScript = "none"
    /\ rsPeople = << >>
    /\ PERSON_EMAIL_CACHE = EmptyCache
    /\ rsLookups = << >>
    /\ rsCalls = << >>
    /\ rsUpdates = << >>

ExportIdle ==
    /\ enPeople = << >>
    /\ enKey = "none"
    /\ enNumbers = << >>
    /\ enCap = 0
    /\ enPc = "idle"
    /\ enStart = 0
    /\ phone_to_person = EmptyCache
    /\ ext_to_person = EmptyCache
    /\ people_cache = EmptyCache
    /\ workspace_cache = EmptyCache
    /\ generic_owner_cache = EmptyCache
    /\ enNumStart = 0
    /\ enPending = << >>
    /\ enShort = FALSE
    /\ enEvents = << >>
    /\ enWritten = << >>

MatchIdle ==
    /\ mtScript = "none"
    /\ mtGroups = << >>
    /\ mtOrg = FALSE
    /\ mtFinds = << >>

NotWritten == << [email |-> <<"not written">>, personid |-> << >>] >>

EmailIdle ==
    /\ e2Script = "none"
    /\ e2Env = [token |-> FALSE, file |-> FALSE, header |-> FALSE]
    /\ e2Input = << >>
    /\ e2Pc = "idle"
    /\ e2I = 0
    /\ e2Attempt = 0
    /\ e2Second = FALSE
    /\ e2Rows = << >>
    /\ e2Requests = << >>
    /\ e2Final = << >>
    /\ e2File = NotWritten
    /\ e2Exit = -1

LogNotWritten ==
    << [row |-> 0, action |-> << >>, groupId |-> "", personId |-> "", email |-> "",
        result |-> "not written", detail |-> ""] >>

BatchIdle ==
    /\ btScript = "none"
    /\ btEnv = [token |-> FALSE, org |-> FALSE, file |-> FALSE]
    /\ btHeaders = {}
    /\ btLen = 0
    /\ btGroup = [exists |-> FALSE, source |-> "", members |-> << >>]
    /\ btPeople = << >>
    /\ btCache = EmptyCache
    /\ btPc = "idle"
    /\ btInput = << >>
    /\ btNets = << >>
    /\ ops = << >>
    /\ btEnd = ""
    /\ btRequests = << >>
    /\ all_ops = << >>
    /\ btLog = LogNotWritten
    /\ btExit = -1

NoBody == [members |-> << >>, totalResults |-> -1, itemsPerPage |-> -1, startIndex |-> -1]

MemberIdle ==
    /\ imPc = "idle"
    /\ imStart = 0
    /\ imLog = << >>
    /\ imData = NoBody
    /\ imResult = FALSE

NoArgs == [vm |-> "", mode |-> "", dest |-> << >>, mwi |-> << >>, external |-> << >>, notify |-> << >>, notify_dest |-> << >>]

NoSettings == [enabled |-> FALSE, storageType |-> "", mwiEnabled |-> FALSE, externalEmail |-> << >>, emailCopyEnabled |-> FALSE, emailId |-> << >>, notifications |-> [enabled |-> FALSE, destination |-> << >>]]

VoiceIdle ==
    /\ vmScript = ""
    /\ vmArgs = NoArgs
    /\ vmInput = << >>
    /\ vmI = 0
    /\ vmPc = "idle"
    /\ vmRequests = << >>
    /\ vmServer = NoSettings
    /\ rows_out = << >>
    /\ vmTally = [ok |-> 0, fail |-> 0]
    /\ vmExit = -1

ReportNotWritten == << [groupId |-> -1, memberCount |-> -1] >>

ReportIdle ==
    /\ grScript = ""
    /\ grGroups = << >>
    /\ grMembers = << >>
    /\ grOrg = FALSE
    /\ grNames = << >>
    /\ grI = 0
    /\ grPc = "idle"
    /\ groups_out = << >>
    /\ members_out = << >>
    /\ grFetched = << >>
    /\ grFile = ReportNotWritten

NoFile == <<"no file">>

WriteIdle ==
    /\ wrScript = ""
    /\ wrRows = << >>
    /\ wrOld = NoFile
    /\ wrOut = NoFile
    /\ wrTmp = NoFile
    /\ wrBuf = << >>
    /\ wrI = 0
    /\ wrPc = "idle"
    /\ wrSeen = << >>

(***************************************************************************)
(* Resilient request executor                                              *)
(***************************************************************************)
Second == 1000000

\* groupList.py:33  if r.status_code in (429, 502, 503, 504)
TransientStatuses == {429, 502, 503, 504}

\* The Retry-After header values the platform sends: delay-seconds.
RetryAfterValues == {"absent", "3", "30"}

\* float(r.headers.get("Retry-After", backoff)): the header text parsed as a
\* number of seconds when present, the current backoff otherwise.
ParseRetryAfter(h, b) ==
    CASE h = "absent" -> b
      [] h = "3"      -> 3 * Second
      [] h = "30"     -> 30 * Second

\* min(sleep_for, 10.0)
SleepCap == 10 * Second

SleepFor(resp, b) == Min(ParseRetryAfter(resp.retryAfter, b), SleepCap)

\* backoff *= 1.6
NextBackoff_double(b) == b * 2
NextBackoff(b) == (b * 16) \div 10

\* for _ in range(5) in _get/_put, for _ in range(6) in backoff_request
RangeBound_plus1(kind) == IF kind = "_get" THEN 6 ELSE 7
RangeBound(kind) == IF kind = "_get" THEN 5 ELSE 6

\* Where control goes after the n-th iteration saw a transient status:
\* `continue` while the range lasts, the trailing `return r` when it is used up.
AfterTransient_raise(n, kind) == IF n = RangeBound(kind) THEN "raised" ELSE "loop"
AfterTransient(n, kind) == IF n = RangeBound(kind) THEN "returned" ELSE "loop"

IsTransient(status) == status \in TransientStatuses

\* The responses the server may give to one request.
ServerResponses ==
    [status : {200, 404}, retryAfter : {"absent"}]
      \cup [status : {429, 503}, retryAfter : RetryAfterValues]
      \cup [status : {502, 504}, retryAfter : {"absent"}]

ExecKinds == {"_get", "backoff_request"}

\* Entry of the executor: backoff = 1.0, the loop not yet entered.
InitExec ==
    /\ exKind \in ExecKinds
    /\ exPc = "loop"
    /\ exAttempt = 0
    /\ exRequests = 0
    /\ backoff = Second
    /\ r = NoResponse
    /\ responses = << >>
    /\ sleeps = << >>
    /\ LinkIdle
    /\ OffsetIdle
    /\ ExtractIdle
    /\ GroupIdle
    /\ ResolveIdle
    /\ ExportIdle
    /\ MatchIdle
    /\ EmailIdle
    /\ BatchIdle
    /\ MemberIdle
    /\ VoiceIdle
    /\ ReportIdle
    /\ WriteIdle

\* One iteration of the for loop: the request is sent and answered by resp.
ExecRequest(resp) ==
    /\ exPc = "loop"
    /\ r' = resp
    /\ responses' = Append(responses, resp)
    /\ exAttempt' = exAttempt + 1
    /\ exRequests' = exRequests + 1
    /\ exKind' = exKind
    /\ IF IsTransient(resp.status)
         THEN /\ sleeps' = Append(sleeps, SleepFor(resp, backoff))
              /\ backoff' = NextBackoff(backoff)
              /\ exPc' = AfterTransient(exAttempt + 1, exKind)
         ELSE /\ exPc' = "returned"
              /\ UNCHANGED <<sleeps, backoff>>
    /\ UNCHANGED <<linkVars, offsetVars, extractVars, groupVars, resolveVars, exportVars, matchVars, emailVars, batchVars, memberVars, voiceVars, reportVars, writeVars>>

\* requests.get / requests.request raises (timeout, connection, TLS): no
\* handler in the executor, the exception leaves it.
ExecNetworkError ==
    /\ exPc = "loop"
    /\ exPc' = "raised"
    /\ exRequests' = exRequests + 1
    /\ UNCHANGED <<exKind, exAttempt, backoff, r, responses, sleeps>>
    /\ UNCHANGED <<linkVars, offsetVars, extractVars, groupVars, resolveVars, exportVars, matchVars, emailVars, batchVars, memberVars, voiceVars, reportVars, writeVars>>

ExecStep == \E resp \in ServerResponses : ExecRequest(resp)

NextExec == ExecStep \/ ExecNetworkError

SpecExec == InitExec /\ [][NextExec]_vars

(***************************************************************************)
(* Item extraction from a page body.  A body is a function from the keys   *)
(* it holds to their collections.                                          *)
(***************************************************************************)
\* data.get(key): the value, or None
Get(body, key) ==
    IF key \in DOMAIN body
      THEN [present |-> TRUE, val |-> body[key]]
      ELSE [present |-> FALSE, val |-> << >>]

\* Python truth: None and the empty list are false
Truthy(x) == x.present /\ x.val # << >>

\* data.get(k1) or data.get(k2) or ... or []
RECURSIVE OrChain_firstPresent(_, _)
OrChain_firstPresent(body, keys) ==
    IF keys = << >> THEN << >>
    ELSE IF Get(body, Head(keys)).present THEN Get(body, Head(keys)).val
    ELSE OrChain_firstPresent(body, Tail(keys))
RECURSIVE OrChain(_, _)
OrChain(body, keys) ==
    IF keys = << >> THEN << >>
    ELSE IF Truthy(Get(body, Head(keys))) THEN Get(body, Head(keys)).val
    ELSE OrChain(body, Tail(keys))

\* The candidate keys of each extraction site, in the order of the source.
CandidateKeys(site) ==
    CASE site = "paginate"          -> <<"items", "results", "Resources">>
      [] site = "get_group_members" -> <<"members", "items", "users">>
      [] site = "list_org_numbers"  -> <<"phoneNumbers", "numbers">>
      [] site = "list_all_groups"   -> <<"groups", "items">>
      [] OTHER                      -> <<"routeLists">>

\* page.get("routeLists", []) in the consumers of get_pages
GetDefault(body, key) == Get(body, key).val

(***************************************************************************)
(* Link-header pager: paginate (groupList.py) and get_pages with its       *)
(* consumer list_route_lists (listDirectoryNumbers.py re-raises,           *)
(* list_webex_pstn_routing.py swallows the RuntimeError)                   *)
(***************************************************************************)
MaxItems == 3
MaxPages == 3

RelNext == "rel=\"next\""
RelPrev == "rel=\"prev\""
RelFirst == "rel=\"first\""

\* ---- the server
BaseUrl == <<"base">>
PageUrlNames == <<"base", "page2", "page3", "page4", "page5">>
PageUrl(k) == <<PageUrlNames[k]>>

\* the items of page k: the collection is 1..N in server order
PageItems(sizes, k) ==
    LET before == SumSeq(SubSeq(sizes, 1, k - 1))
    IN  [i \in 1..sizes[k] |-> before + i]

PageSplits ==
    UNION { {sz \in [1..p -> 0..MaxItems] : SumSeq(sz) <= MaxItems} : p \in 1..MaxPages }

\* <url>; rel="..."
LinkEntry(u, rel) == <<"<">> \o u \o <<">", ";", " ", rel>>

\* The Link header values the server may send with page k of p pages.
LinkHeaders(k, p) ==
    IF k < p
      THEN { LinkEntry(PageUrl(k + 1), RelNext),
             LinkEntry(BaseUrl, RelFirst) \o <<",", " ">> \o LinkEntry(PageUrl(k + 1), RelNext),
             LinkEntry(PageUrl(k + 1), RelNext) \o <<",", " ">> \o LinkEntry(PageUrl(k), RelPrev) }
      ELSE { << >>, LinkEntry(BaseUrl, RelFirst) }

\* the page a URL addresses; 0 when the server does not know the URL
PageOf(u, p) ==
    IF \E k \in 1..p : PageUrl(k) = u THEN CHOOSE k \in 1..p : PageUrl(k) = u ELSE 0

\* the final status of one page request as the pager sees it (for paginate:
\* what _get returns after its retries)
PageStatuses == {200, 404, 503}

\* ---- the pagers
\* groupList.py:50-57: the first part with rel="next", cut between < and >
NextUrl_paginate(link) ==
    LET parts == SplitOn(link, ",")
        hits  == {i \in 1..Len(parts) : Contains(parts[i], RelNext)}
    IN  IF hits = {} THEN << >>
        ELSE LET part == parts[CHOOSE i \in hits : \A j \in hits : i <= j]
             IN  PySlice(part, Find(part, "<") + 1, Find(part, ">"))

\* listDirectoryNumbers.py:48-54: every part with rel="next" whose first
\* ;-segment is <...> sets next_url; the last one stays
NextUrl_get_pages(link) ==
    LET parts  == SplitOn(link, ",")
        Seg(p) == Strip(SplitOn(Strip(p), ";")[1])
        hits   == {i \in 1..Len(parts) :
                     /\ Contains(parts[i], RelNext)
                     /\ Seg(parts[i]) # << >>
                     /\ Head(Seg(parts[i])) = "<"
                     /\ Seg(parts[i])[Len(Seg(parts[i]))] = ">"}
    IN  IF hits = {} THEN << >>
        ELSE PySlice(Seg(parts[CHOOSE i \in hits : \A j \in hits : i >= j]), 1, -1)

NextUrl_firstPart(kind, link) ==
    LET part == SplitOn(link, ",")[1]
    IN  IF Contains(part, RelNext)
          THEN PySlice(part, Find(part, "<") + 1, Find(part, ">")) ELSE << >>
NextUrl(kind, link) ==
    IF kind = "paginate" THEN NextUrl_paginate(link) ELSE NextUrl_get_pages(link)

\* r.raise_for_status() raises for 4xx and 5xx; get_pages raises unless 200
Raises(kind, status) ==
    IF kind = "paginate" THEN status >= 400 ELSE status # 200

\* The params sent with the first request; None afterwards
ParamsAfterFirst == "None"

\* what the consumer receives from one page body
PageYield(kind, body) ==
    IF kind = "paginate" THEN OrChain(body, CandidateKeys("paginate"))
    ELSE GetDefault(body, "routeLists")

LinkKinds == {"paginate", "listDirectoryNumbers", "list_webex_pstn_routing"}

LinkKeys(kind) ==
    IF kind = "paginate" THEN {"items", "results", "Resources"} ELSE {"routeLists"}

InitLink ==
    /\ lkKind \in LinkKinds
    /\ lkSizes \in PageSplits
    /\ lkKey \in LinkKeys(lkKind)
    /\ lkPc = "fetch"
    /\ url = BaseUrl
    /\ params = "initial"
    /\ lkLog = << >>
    /\ lkStatuses = << >>
    /\ lkYielded = << >>
    /\ lkError = NoError
    /\ ExecIdle
    /\ OffsetIdle
    /\ ExtractIdle
    /\ GroupIdle
    /\ ResolveIdle
    /\ ExportIdle
    /\ MatchIdle
    /\ EmailIdle
    /\ BatchIdle
    /\ MemberIdle
    /\ VoiceIdle
    /\ ReportIdle
    /\ WriteIdle

\* One turn of the while loop whose request ends with a status the pager
\* accepts: the body is read, its items are yielded, the Link header decides.
LinkPage(link) ==
    LET p    == Len(lkSizes)
        k    == PageOf(url, p)
        body == [key \in {lkKey} |-> PageItems(lkSizes, k)]
        next == NextUrl(lkKind, link)
    IN  /\ lkPc = "fetch"
        /\ k # 0
        /\ link \in LinkHeaders(k, p)
        /\ lkLog' = Append(lkLog, [url |-> url, params |-> params])
        /\ lkStatuses' = Append(lkStatuses, 200)
        /\ lkYielded' = lkYielded \o PageYield(lkKind, body)
        /\ IF next = << >>
             THEN /\ lkPc' = "done"
                  /\ UNCHANGED <<url, params>>
             ELSE /\ lkPc' = "fetch"
                  /\ url' = next
                  /\ params' = ParamsAfterFirst
        /\ UNCHANGED <<lkKind, lkSizes, lkKey, lkError>>
        /\ UNCHANGED <<execVars, offsetVars, extractVars, groupVars, resolveVars, exportVars, matchVars, emailVars, batchVars, memberVars, voiceVars, reportVars, writeVars>>

\* One turn of the while loop whose request ends with a status the pager
\* rejects (also: a URL the server does not know is answered 404).
LinkPageFails(status) ==
    /\ lkPc = "fetch"
    /\ Raises(lkKind, status)
    /\ lkLog' = Append(lkLog, [url |-> url, params |-> params])
    /\ lkStatuses' = Append(lkStatuses, status)
    /\ IF lkKind = "list_webex_pstn_routing"
         THEN \* except RuntimeError: return
              /\ lkPc' = "done"
              /\ lkError' = NoError
         ELSE /\ lkPc' = "raised"
              /\ lkError' = [url |-> url, status |-> status]
    /\ UNCHANGED <<lkKind, lkSizes, lkKey, url, params, lkYielded>>
    /\ UNCHANGED <<execVars, offsetVars, extractVars, groupVars, resolveVars, exportVars, matchVars, emailVars, batchVars, memberVars, voiceVars, reportVars, writeVars>>

LinkServe == \E link \in UNION {LinkHeaders(k, MaxPages) : k \in 1..MaxPages} : LinkPage(link)
LinkFail == \E status \in PageStatuses : LinkPageFails(status)

NextLink == LinkServe \/ LinkFail

SpecLink == InitLink /\ [][NextLink]_vars

(***************************************************************************)
(* Offset/total pager: list_all_groups and get_group_members               *)
(* (groupListv02.py)                                                       *)
(***************************************************************************)
MaxTotal == 4
MaxPageSize == 3

\* ---- the server: n items 1..n, at most `size` of them per page
\* conv: what itemsPerPage reports: "count" (items on this page), "size" (the
\* page size) or "absent" (the field is not sent); key: the container key of
\* the body.  startIndex, when sent, is the one that was requested.
OffsetItems(sv, start) ==
    LET last == Min(start + sv.size - 1, sv.n)
    IN  [i \in 1..Max(last - start + 1, 0) |-> start + i - 1]

OffsetBody(sv, start) == [key \in {sv.key} |-> OffsetItems(sv, start)]

\* int(data.get("totalResults", 0) or 0)
ReadTotal(sv) == sv.n

\* int(data.get("startIndex", params["startIndex"]))
ReadStart(sv, requested) == requested

\* int(data.get("itemsPerPage", len(batch)) or 0)
ReadPer(sv, batch) == IF sv.conv = "size" THEN sv.size ELSE Len(batch)

\* if total and per and (start + per) <= total
MorePages_strict(total, per, start) == total # 0 /\ per # 0 /\ start + per < total
MorePages(total, per, start) == total # 0 /\ per # 0 /\ start + per <= total

OffsetKinds == {"list_all_groups", "get_group_members"}

OffsetServers(kind) ==
    [n : 0..MaxTotal, size : 1..MaxPageSize, conv : {"count", "size", "absent"},
     key : {CandidateKeys(kind)[i] : i \in 1..Len(CandidateKeys(kind))}]

\* params = {"itemsPerPage": 200, "startIndex": 1}; out = []
InitOffset ==
    /\ ofKind \in OffsetKinds
    /\ ofServer \in OffsetServers(ofKind)
    /\ ofPc = "fetch"
    /\ ofStart = 1
    /\ out = << >>
    /\ ofLog = << >>
    /\ ofPages = << >>
    /\ ofStatuses = << >>
    /\ ExecIdle
    /\ LinkIdle
    /\ ExtractIdle
    /\ GroupIdle
    /\ ResolveIdle
    /\ ExportIdle
    /\ MatchIdle
    /\ EmailIdle
    /\ BatchIdle
    /\ MemberIdle
    /\ VoiceIdle
    /\ ReportIdle
    /\ WriteIdle

\* One turn of the while loop with a 200 response.
OffsetPage ==
    LET batch == OrChain(OffsetBody(ofServer, ofStart), CandidateKeys(ofKind))
        total == ReadTotal(ofServer)
        start == ReadStart(ofServer, ofStart)
        per   == ReadPer(ofServer, batch)
    IN  /\ ofPc = "fetch"
        /\ ofLog' = Append(ofLog, ofStart)
        /\ ofStatuses' = Append(ofStatuses, 200)
        /\ out' = out \o batch
        /\ ofPages' = Append(ofPages, [start |-> start, per |-> per, total |-> total])
        /\ IF MorePages(total, per, start)
             THEN /\ ofStart' = start + per
                  /\ ofPc' = "fetch"
             ELSE /\ ofPc' = "done"
                  /\ UNCHANGED ofStart
        /\ UNCHANGED <<ofKind, ofServer>>
        /\ UNCHANGED <<execVars, linkVars, extractVars, groupVars, resolveVars, exportVars, matchVars, emailVars, batchVars, memberVars, voiceVars, reportVars, writeVars>>

\* One turn of the while loop with a failing response: sys.exit on 401/403
\* (list_all_groups), raise_for_status otherwise.
OffsetPageFails(status) ==
    /\ ofPc = "fetch"
    /\ status >= 400
    /\ ofLog' = Append(ofLog, ofStart)
    /\ ofStatuses' = Append(ofStatuses, status)
    /\ ofPc' = "raised"
    /\ UNCHANGED <<ofKind, ofServer, ofStart, out, ofPages>>
    /\ UNCHANGED <<execVars, linkVars, extractVars, groupVars, resolveVars, exportVars, matchVars, emailVars, batchVars, memberVars, voiceVars, reportVars, writeVars>>

OffsetFail == \E status \in {401, 404, 503} : OffsetPageFails(status)

NextOffset == OffsetPage \/ OffsetFail

SpecOffset == InitOffset /\ [][NextOffset]_vars

(***************************************************************************)
(* Item extraction on its own: every body over the candidate keys          *)
(***************************************************************************)
ItemLists == {<< >>, <<1>>, <<2, 3>>}

ExtractSites == {"paginate", "get_group_members", "list_org_numbers"}

KeySet(site) == {CandidateKeys(site)[i] : i \in 1..Len(CandidateKeys(site))}

\* every body holding any subset of the candidate keys
Bodies(site) == UNION { [ks -> ItemLists] : ks \in SUBSET KeySet(site) }

InitExtract ==
    /\ xtSite \in ExtractSites
    /\ data \in Bodies(xtSite)
    /\ xtPc = "read"
    /\ items = << >>
    /\ ExecIdle
    /\ LinkIdle
    /\ OffsetIdle
    /\ GroupIdle
    /\ ResolveIdle
    /\ ExportIdle
    /\ MatchIdle
    /\ EmailIdle
    /\ BatchIdle
    /\ MemberIdle
    /\ VoiceIdle
    /\ ReportIdle
    /\ WriteIdle

\* items = data.get(k1) or data.get(k2) or ... or []
Extract ==
    /\ xtPc = "read"
    /\ items' = OrChain(data, CandidateKeys(xtSite))
    /\ xtPc' = "done"
    /\ UNCHANGED <<xtSite, data>>
    /\ UNCHANGED <<execVars, linkVars, offsetVars, groupVars, resolveVars, exportVars, matchVars, emailVars, batchVars, memberVars, voiceVars, reportVars, writeVars>>

NextExtract == Extract

SpecExtract == InitExtract /\ [][NextExtract]_vars

(***************************************************************************)
(* Group membership operations: add_member, delete_member, is_member,      *)
(* group_is_writable (groupMemberACD.py, groupMemberAD.py)                 *)
(***************************************************************************)
MaxCalls == 2

GroupIds == {"g1", "g2"}
PersonIds == {"p1", "p2"}

\* (g.get("source") or "").lower()
Lower(src) ==
    CASE src = "Local" -> "local"
      [] src = "LDAP"  -> "ldap"
      [] OTHER         -> src

Sources == {"", "Local", "LDAP"}

InSeq(x, sq) == \E i \in 1..Len(sq) : sq[i] = x

RECURSIVE Without(_, _)
Without(sq, x) ==
    IF sq = << >> THEN << >>
    ELSE IF Head(sq) = x THEN Without(Tail(sq), x)
    ELSE <<Head(sq)>> \o Without(Tail(sq), x)

\* ---- the server
\* A group the server does not have, and the groups it may have.
NoGroup == [exists |-> FALSE, source |-> "", members |-> << >>]

GroupStates ==
    {NoGroup} \cup
    [exists : {TRUE}, source : Sources,
     members : {<< >>, <<"p1">>, <<"p2">>, <<"p1", "p2">>}]

\* pageSize: members per page of the members listing.
\* addExisting: how adding a person who is a member already is answered:
\* "refuse" (409 for the POST, 400 scimType=uniqueness for the SCIM PATCH, the
\* answers add_member looks for) or "accept" (a success status and no change,
\* the SCIM no-op).
\* removeMissing: the status the removal of a person who is not a member is
\* answered with (delete_member looks for 404, in groupMemberAD also 400; 204
\* is the no-op success).
GroupPolicies(script) ==
    [pageSize : {1, 2},
     addExisting : {"refuse", "accept"},
     removeMissing : IF script = "AD" THEN {204, 400, 404} ELSE {204, 404}]

Response(status, scimType) == [status |-> status, scimType |-> scimType]

\* POST /v1/groups/{id}/members (ACD) or PATCH op=add (AD)
ServerAdd(script, policy, grp, person) ==
    IF ~grp.exists THEN [resp |-> Response(404, ""), grp |-> grp]
    ELSE IF InSeq(person, grp.members)
      THEN [resp |-> IF policy.addExisting = "accept" THEN Response(200, "")
                     ELSE IF script = "ACD" THEN Response(409, "")
                     ELSE Response(400, "uniqueness"),
            grp  |-> grp]
    ELSE [resp |-> Response(IF script = "ACD" THEN 201 ELSE 204, ""),
          grp  |-> [grp EXCEPT !.members = Append(@, person)]]

\* DELETE /v1/groups/{id}/members/{person} (ACD) or PATCH op=remove (AD)
ServerRemove(script, policy, grp, person) ==
    IF ~grp.exists THEN [resp |-> Response(404, ""), grp |-> grp]
    ELSE IF InSeq(person, grp.members)
      THEN [resp |-> Response(204, ""),
            grp  |-> [grp EXCEPT !.members = Without(@, person)]]
    ELSE [resp |-> Response(policy.removeMissing, IF policy.removeMissing = 400 THEN "noTarget" ELSE ""),
          grp  |-> grp]

\* GET the group (AD, get_group): the body when the status is 200, else None
ServerGetGroup(grp) == IF grp.exists THEN 200 ELSE 404

\* ---- the client
\* is_member: page through the members from startIndex 1; a non-200 answer
\* ends the check with False
RECURSIVE MemberScan(_, _, _, _)
MemberScan(members, size, start, person) ==
    LET total == Len(members)
        last  == Min(start + size - 1, total)
        page  == SubSeq(members, start, last)
        per   == Len(page)
    IN  IF InSeq(person, page) THEN TRUE
        ELSE IF total # 0 /\ start + per <= total
          THEN MemberScan(members, size, start + per, person)
        ELSE FALSE

is_member(status, members, size, person) ==
    IF status # 200 THEN FALSE ELSE MemberScan(members, size, 1, person)

\* group_is_writable (AD): no group found -> writable; a source other than
\* "" and "local" -> read-only
group_is_writable(status, grp) ==
    IF status # 200 THEN TRUE
    ELSE LET src == Lower(grp.source) IN ~(src # "" /\ src # "local")

Result(ok, detail) == [ok |-> ok, detail |-> detail]

\* add_member, after the request: how the response is reported
AddResult_conflictFails(script, resp) ==
    IF script = "ACD"
      THEN IF resp.status \in {200, 201, 204} THEN Result(TRUE, "added")
           ELSE Result(FALSE, "add failed")
      ELSE IF resp.status \in {200, 204} THEN Result(TRUE, "added")
           ELSE Result(FALSE, "add failed")
AddResult(script, resp) ==
    IF script = "ACD"
      THEN IF resp.status \in {200, 201, 204} THEN Result(TRUE, "added")
           ELSE IF resp.status = 409 THEN Result(TRUE, "already a member")
           ELSE Result(FALSE, "add failed")
      ELSE IF resp.status \in {200, 204} THEN Result(TRUE, "added")
           ELSE IF resp.status = 400 /\ resp.scimType = "uniqueness"
             THEN Result(TRUE, "already a member")
           ELSE Result(FALSE, "add failed")

\* delete_member, after the request; member is the outcome of is_member,
\* which the code calls only on the statuses named here
DeleteResult_no404(script, resp, member) ==
    IF resp.status \in {200, 204} THEN Result(TRUE, "removed")
    ELSE Result(FALSE, "delete failed")
DeleteResult(script, resp, member) ==
    IF resp.status \in {200, 204} THEN Result(TRUE, "removed")
    ELSE IF script = "ACD" /\ resp.status = 404 /\ ~member
      THEN Result(TRUE, "not a member (no-op)")
    ELSE IF script = "AD" /\ resp.status \in {400, 404} /\ ~member
      THEN Result(TRUE, "not a member (no-op)")
    ELSE Result(FALSE, "delete failed")

\* the pre-check of add_member / delete_member in AD; ACD has none
PreCheckRefuses(script, grp) ==
    script = "AD" /\ ~group_is_writable(ServerGetGroup(grp), grp)

ScriptKinds == {"ACD", "AD"}

InitGroup ==
    /\ gmScript \in ScriptKinds
    /\ gmGroups \in [GroupIds -> GroupStates]
    /\ gmPolicy \in GroupPolicies(gmScript)
    /\ gmCalls = << >>
    /\ ExecIdle
    /\ LinkIdle
    /\ OffsetIdle
    /\ ExtractIdle
    /\ ResolveIdle
    /\ ExportIdle
    /\ MatchIdle
    /\ EmailIdle
    /\ BatchIdle
    /\ MemberIdle
    /\ VoiceIdle
    /\ ReportIdle
    /\ WriteIdle

Call(op, g, person, res) ==
    [op |-> op, group |-> g, person |-> person, before |-> gmGroups[g],
     ok |-> res.ok, detail |-> res.detail]

\* add_member(group_id, person_id)
add_member(g, person) ==
    /\ Len(gmCalls) < MaxCalls
    /\ IF PreCheckRefuses(gmScript, gmGroups[g])
         THEN /\ gmCalls' = Append(gmCalls, Call("add", g, person, Result(FALSE, "read-only")))
              /\ UNCHANGED gmGroups
         ELSE LET sv == ServerAdd(gmScript, gmPolicy, gmGroups[g], person)
              IN  /\ gmGroups' = [gmGroups EXCEPT ![g] = sv.grp]
                  /\ gmCalls' = Append(gmCalls, Call("add", g, person, AddResult(gmScript, sv.resp)))
    /\ UNCHANGED <<gmScript, gmPolicy>>
    /\ UNCHANGED <<execVars, linkVars, offsetVars, extractVars, resolveVars, exportVars, matchVars, emailVars, batchVars, memberVars, voiceVars, reportVars, writeVars>>

\* delete_member(group_id, person_id)
delete_member(g, person) ==
    /\ Len(gmCalls) < MaxCalls
    /\ IF PreCheckRefuses(gmScript, gmGroups[g])
         THEN /\ gmCalls' = Append(gmCalls, Call("delete", g, person, Result(FALSE, "read-only")))
              /\ UNCHANGED gmGroups
         ELSE LET sv     == ServerRemove(gmScript, gmPolicy, gmGroups[g], person)
                  member == is_member(ServerGetGroup(sv.grp), sv.grp.members,
                                      gmPolicy.pageSize, person)
              IN  /\ gmGroups' = [gmGroups EXCEPT ![g] = sv.grp]
                  /\ gmCalls' = Append(gmCalls,
                        Call("delete", g, person, DeleteResult(gmScript, sv.resp, member)))
    /\ UNCHANGED <<gmScript, gmPolicy>>
    /\ UNCHANGED <<execVars, linkVars, offsetVars, extractVars, resolveVars, exportVars, matchVars, emailVars, batchVars, memberVars, voiceVars, reportVars, writeVars>>

AddCall == \E g \in GroupIds, person \in PersonIds : add_member(g, person)
DeleteCall == \E g \in GroupIds, person \in PersonIds : delete_member(g, person)

NextGroup == AddCall \/ DeleteCall

SpecGroup == InitGroup /\ [][NextGroup]_vars

(***************************************************************************)
(* Person resolver: resolve_person and get_email_for_person                *)
(* (groupMemberACD.py, groupMemberAD.py)                                   *)
(***************************************************************************)
MaxResolves == 2

Emails == {"a@x", "b@x"}

PersonOrder == <<"p1", "p2">>

\* ---- the server: every person has a list of emails, the first is primary
EmailLists == {<< >>, <<"a@x">>, <<"b@x">>, <<"a@x", "b@x">>, <<"b@x", "a@x">>}

\* GET /v1/people?email=...: the matching persons, in server order
PeopleByEmail(people, email) ==
    SelectSeq(PersonOrder, LAMBDA person : InSeq(email, people[person]))

LookupStatuses == {200, 503}

\* ---- the client
CachePut(cache, person, email) ==
    [x \in DOMAIN cache \cup {person} |-> IF x = person THEN email ELSE cache[x]]

Lookup(by, key, status) == [by |-> by, key |-> key, status |-> status]

\* get_email_for_person (ACD): the cache, else GET /v1/people/{id}
\* result: [email, cache, lookups]
get_email_for_person(cache, people, person, status) ==
    IF person \in DOMAIN cache
      THEN [email |-> cache[person], cache |-> cache, lookups |-> << >>]
    ELSE IF status = 200
      THEN LET emails == people[person]
               email  == IF emails # << >> THEN emails[1] ELSE ""
           IN  [email   |-> email,
                cache   |-> IF email # "" THEN CachePut(cache, person, email) ELSE cache,
                lookups |-> <<Lookup("id", person, status)>>]
    ELSE [email |-> "", cache |-> cache, lookups |-> <<Lookup("id", person, status)>>]

\* resolve_person(person_id, email); "" stands for None / blank
\* result: [pid, found, cache, lookups]
resolve_person(script, cache, people, person_id, email, status) ==
    IF person_id # ""
      THEN IF email = ""
             THEN IF script = "ACD"
                    THEN LET g == get_email_for_person(cache, people, person_id, status)
                         IN  [pid |-> person_id, found |-> g.email,
                              cache |-> g.cache, lookups |-> g.lookups]
                    ELSE [pid |-> person_id,
                          found |-> IF person_id \in DOMAIN cache THEN cache[person_id] ELSE "",
                          cache |-> cache, lookups |-> << >>]
             ELSE [pid |-> person_id, found |-> email, cache |-> cache, lookups |-> << >>]
    ELSE IF email = ""
      THEN [pid |-> "", found |-> "", cache |-> cache, lookups |-> << >>]
    ELSE LET matches == IF status = 200 THEN PeopleByEmail(people, email) ELSE << >>
             lk      == <<Lookup("email", email, status)>>
         IN  IF matches # << >>
               THEN LET pid   == matches[1]
                        ems   == people[pid]
                        found == IF ems # << >> THEN ems[1] ELSE email
                    IN  [pid |-> pid, found |-> found,
                         cache |-> CachePut(cache, pid, found), lookups |-> lk]
               ELSE [pid |-> "", found |-> email, cache |-> cache, lookups |-> lk]

InitResolve ==
    /\ rsScript \in ScriptKinds
    /\ rsPeople \in [PersonIds -> EmailLists]
    /\ PERSON_EMAIL_CACHE = EmptyCache
    /\ rsLookups = << >>
    /\ rsCalls = << >>
    /\ rsUpdates = << >>
    /\ ExecIdle
    /\ LinkIdle
    /\ OffsetIdle
    /\ ExtractIdle
    /\ GroupIdle
    /\ ExportIdle
    /\ MatchIdle
    /\ EmailIdle
    /\ BatchIdle
    /\ MemberIdle
    /\ VoiceIdle
    /\ ReportIdle
    /\ WriteIdle

\* One call of resolve_person; status is what the request of this call, if
\* it makes one, ends with.
Resolve(person_id, email, status) ==
    LET res == resolve_person(rsScript, PERSON_EMAIL_CACHE, rsPeople, person_id, email, status)
    IN  /\ rsScript \in ScriptKinds
        /\ Len(rsCalls) < MaxResolves
        /\ (res.lookups = << >> => status = 200)
        /\ PERSON_EMAIL_CACHE' = res.cache
        /\ rsLookups' = rsLookups \o res.lookups
        /\ rsCalls' = Append(rsCalls,
              [personId |-> person_id, email |-> email, pid |-> res.pid,
               found |-> res.found, lookups |-> Len(res.lookups)])
        /\ UNCHANGED <<rsScript, rsPeople, rsUpdates>>
        /\ UNCHANGED <<execVars, linkVars, offsetVars, extractVars, groupVars, exportVars, matchVars, emailVars, batchVars, memberVars, voiceVars, reportVars, writeVars>>

ResolveCall ==
    \E person_id \in PersonIds \cup {""}, email \in Emails \cup {""},
       status \in LookupStatuses : Resolve(person_id, email, status)

MaxUpdates == 1

DisplayNames == {"", "New Name"}

UpdateStatuses == {200, 204, 400}

\* PUT /v1/people/{id} with body {displayName?, emails?}: on success the
\* person's emails are replaced when the body carries emails
ServerPut(people, person, new_email, status) ==
    IF status \in {200, 204} /\ new_email # ""
      THEN [people EXCEPT ![person] = <<new_email>>]
      ELSE people

\* update_person(person_id, new_display, new_email); "" stands for None / blank
\* result: [ok, detail, cache, sent]
update_person_eager(cache, person_id, new_display, new_email, status) ==
    IF person_id = ""
      THEN [ok |-> FALSE, detail |-> "personId required", cache |-> cache, sent |-> FALSE]
    ELSE IF new_display = "" /\ new_email = ""
      THEN [ok |-> TRUE, detail |-> "No-op", cache |-> cache, sent |-> FALSE]
    ELSE [ok |-> status \in {200, 204},
          detail |-> IF status \in {200, 204} THEN "Updated user profile"
                     ELSE "People update failed",
          cache |-> IF new_email # "" THEN CachePut(cache, person_id, new_email)
                    ELSE cache,
          sent |-> TRUE]

update_person(cache, person_id, new_display, new_email, status) ==
    IF person_id = ""
      THEN [ok |-> FALSE, detail |-> "personId required", cache |-> cache, sent |-> FALSE]
    ELSE IF new_display = "" /\ new_email = ""
      THEN [ok |-> TRUE, detail |-> "No-op", cache |-> cache, sent |-> FALSE]
    ELSE IF status \in {200, 204}
      THEN [ok |-> TRUE, detail |-> "Updated user profile",
            cache |-> IF new_email # "" THEN CachePut(cache, person_id, new_email)
                      ELSE cache,
            sent |-> TRUE]
    ELSE [ok |-> FALSE, detail |-> "People update failed", cache |-> cache, sent |-> TRUE]

\* One call of update_person (groupMemberACD.py only); status is what the PUT
\* of this call, if it sends one, ends with.
Update(person_id, new_display, new_email, status) ==
    LET res == update_person(PERSON_EMAIL_CACHE, person_id, new_display, new_email, status)
    IN  /\ rsScript = "ACD"
        /\ Len(rsUpdates) < MaxUpdates
        /\ (~res.sent => status = 200)
        /\ PERSON_EMAIL_CACHE' = res.cache
        /\ rsPeople' = IF res.sent
                         THEN ServerPut(rsPeople, person_id, new_email, status)
                         ELSE rsPeople
        /\ rsUpdates' = Append(rsUpdates,
              [person |-> person_id, display |-> new_display, email |-> new_email,
               status |-> status, ok |-> res.ok, detail |-> res.detail])
        /\ UNCHANGED <<rsScript, rsLookups, rsCalls>>
        /\ UNCHANGED <<execVars, linkVars, offsetVars, extractVars, groupVars, exportVars, matchVars, emailVars, batchVars, memberVars, voiceVars, reportVars, writeVars>>

UpdateCall ==
    \E person_id \in PersonIds \cup {""}, new_display \in DisplayNames,
       new_email \in Emails \cup {""}, status \in UpdateStatuses :
        Update(person_id, new_display, new_email, status)

NextResolve == ResolveCall \/ UpdateCall

SpecResolve == InitResolve /\ [][NextResolve]_vars

(***************************************************************************)
(* Numbers export: build_reverse_person_index, list_org_numbers,           *)
(* resolve_owner_name and export_numbers (listPSTNAndRoutingNumbersv02.py) *)
(* Phone numbers and extensions are strings held as sequences of tokens;   *)
(* names, ids and owner types are atomic strings.                          *)
(***************************************************************************)
\* The page sizes of the source (page_size = 1000, PAGE_MAX = 2000), scaled.
page_size == 2
PAGE_MAX == 2

MaxPeople == 3
MaxRows == 2

None == <<"None">>

\* str.replace(" ", "")
RemoveSpaces(s) == Without(s, " ")

\* a or b or c or "": the first non-empty string
RECURSIVE FirstTruthy(_)
FirstTruthy(ss) ==
    IF ss = << >> THEN ""
    ELSE IF Head(ss) # "" THEN Head(ss)
    ELSE FirstTruthy(Tail(ss))

\* str.upper() on the owner types of the model
Upper(t) ==
    CASE t \in {"PERSON", "person"}       -> "PERSON"
      [] t \in {"PEOPLE", "people"}       -> "PEOPLE"
      [] t \in {"WORKSPACE", "workspace"} -> "WORKSPACE"
      [] OTHER                            -> t

Range(sq) == {sq[i] : i \in 1..Len(sq)}

\* ---- the server
\* GET /v1/telephony/config/people: the people, with their numbers in the
\* fields build_reverse_person_index reads.  The third person holds the same
\* number as the first, written without the space.
TelephonyPeople ==
    << [id |-> "p1", displayName |-> "Alice", firstName |-> "",
        phoneNumbers |-> << <<"+1", " ", "00">> >>, numbers |-> << >>,
        phoneNumber |-> << >>, extensions |-> << >>, extension |-> <<"101">>],
       [id |-> "p2", displayName |-> "", firstName |-> "Bob",
        phoneNumbers |-> << >>, numbers |-> << <<"+2", "00", " ">> >>,
        phoneNumber |-> << >>, extensions |-> << <<" ", "102">> >>, extension |-> None],
       [id |-> "p3", displayName |-> "Cy", firstName |-> "",
        phoneNumbers |-> << >>, numbers |-> << >>,
        phoneNumber |-> <<"+1", "00">>, extensions |-> << >>, extension |-> <<" ">>],
       [id |-> "p4", displayName |-> "Dee", firstName |-> "",
        phoneNumbers |-> << >>, numbers |-> << >>,
        phoneNumber |-> <<"+4", "00">>, extensions |-> << >>, extension |-> <<"104">>] >>

PeoplePage(people, key, start) ==
    [k \in {key} |-> SubSeq(people, start + 1, Min(start + page_size, Len(people)))]

\* GET /v1/people/{id} and GET /v1/workspaces/{id}
OwnerIds == {"p1", "p2", "w1", "f1"}

PersonRecord(id) ==
    CASE id = "p1" -> [displayName |-> "Alice", nickName |-> "Al", firstName |-> "A"]
      [] id = "p2" -> [displayName |-> "", nickName |-> "", firstName |-> "Bob"]
      [] OTHER     -> [displayName |-> "", nickName |-> "", firstName |-> ""]

WorkspaceRecord(id) ==
    CASE id = "w1" -> [displayName |-> "", name |-> "Lobby"]
      [] OTHER     -> [displayName |-> "", name |-> ""]

\* GET /v1/telephony/config/numbers
NoOwner == [type |-> "", id |-> "", name |-> ""]

NumberRows ==
    { [phoneNumber |-> <<"+1", " ", "00">>, extension |-> << >>,
       owner |-> [type |-> "PERSON", id |-> "", name |-> ""]],
      [phoneNumber |-> << >>, extension |-> <<"102">>,
       owner |-> [type |-> "people", id |-> "", name |-> ""]],
      [phoneNumber |-> <<"+5", "00">>, extension |-> << >>,
       owner |-> [type |-> "PERSON", id |-> "p1", name |-> ""]],
      [phoneNumber |-> <<"+2", "00">>, extension |-> << >>,
       owner |-> [type |-> "PEOPLE", id |-> "p2", name |-> ""]],
      [phoneNumber |-> <<"+6", "00">>, extension |-> << >>,
       owner |-> [type |-> "WORKSPACE", id |-> "w1", name |-> ""]],
      [phoneNumber |-> <<"+7", "00">>, extension |-> << >>,
       owner |-> [type |-> "FEATURE", id |-> "f1", name |-> ""]],
      [phoneNumber |-> <<"+8", "00">>, extension |-> << >>,
       owner |-> [type |-> "PERSON", id |-> "p1", name |-> "Given"]],
      [phoneNumber |-> <<"+9", "00">>, extension |-> << >>, owner |-> NoOwner] }

\* the most items the server puts on one page, whatever max asks for
ServerCaps == {1, PAGE_MAX}

NumbersPage(numbers, start, cap) ==
    [phoneNumbers |-> SubSeq(numbers, start + 1,
                             Min(start + Min(PAGE_MAX, cap), Len(numbers)))]

\* what a request ends with: a status, or 0 for an exception raised by the
\* HTTP library (timeout, connection or TLS error)
RequestOutcomes == {200, 404, 0}

\* ---- the client
PutAll(map, keys, val) ==
    [k \in DOMAIN map \cup keys |-> IF k \in keys THEN val ELSE map[k]]

\* the body of `for p in people` in build_reverse_person_index
IndexPerson(maps, p) ==
    LET dname == FirstTruthy(<<p.displayName, p.firstName>>)
        nums  == ({Strip(v) : v \in Range(p.phoneNumbers) \cup Range(p.numbers)}
                      \cup {Strip(p.phoneNumber)}) \ {<< >>}
        exts  == ({Strip(e) : e \in Range(p.extensions)} \ {<< >>})
                      \cup (IF p.extension # None THEN {Strip(p.extension)} ELSE {})
    IN  [phone |-> PutAll(maps.phone, {RemoveSpaces(n) : n \in nums}, <<p.id, dname>>),
         ext   |-> PutAll(maps.ext, {Strip(e) : e \in exts} \ {<< >>}, <<p.id, dname>>)]

RECURSIVE IndexPeople(_, _)
IndexPeople(maps, people) ==
    IF people = << >> THEN maps
    ELSE IndexPeople(IndexPerson(maps, Head(people)), Tail(people))

Event(ev, at, status) == [ev |-> ev, at |-> at, status |-> status]

\* the except clause of resolve_owner_name: the failure is cached as an empty
\* name under the owner id
FailedLookup_uncached(keep, gcache, owner_id) == [keep EXCEPT !.sent = TRUE]
FailedLookup(keep, gcache, owner_id) ==
    [keep EXCEPT !.generic = CachePut(gcache, owner_id, ""), !.sent = TRUE]

\* resolve_owner_name(owner_type, owner_id, owner_name_in_payload); outcome
\* is what the GET of this call, if it sends one, ends with
\* result: [name, people, workspace, generic, sent]
resolve_owner_name(pcache, wcache, gcache, owner_type, owner_id, payload_name, outcome) ==
    LET t    == Upper(owner_type)
        keep == [name |-> "", people |-> pcache, workspace |-> wcache,
                 generic |-> gcache, sent |-> FALSE]
        failed == FailedLookup(keep, gcache, owner_id)
    IN  IF payload_name # "" THEN [keep EXCEPT !.name = payload_name]
        ELSE IF owner_id # "" /\ owner_id \in DOMAIN gcache
          THEN [keep EXCEPT !.name = gcache[owner_id]]
        ELSE IF t \in {"PERSON", "PEOPLE"}
          THEN IF owner_id = "" THEN keep
               ELSE IF owner_id \in DOMAIN pcache
                 THEN [keep EXCEPT !.name = pcache[owner_id],
                                   !.generic = CachePut(gcache, owner_id, pcache[owner_id])]
               ELSE IF outcome # 200 THEN failed
               ELSE LET rec  == PersonRecord(owner_id)
                        name == FirstTruthy(<<rec.displayName, rec.nickName, rec.firstName>>)
                    IN  [name |-> name, people |-> CachePut(pcache, owner_id, name),
                         workspace |-> wcache,
                         generic |-> CachePut(gcache, owner_id, name), sent |-> TRUE]
        ELSE IF t = "WORKSPACE"
          THEN IF owner_id = "" THEN keep
               ELSE IF owner_id \in DOMAIN wcache
                 THEN [keep EXCEPT !.name = wcache[owner_id],
                                   !.generic = CachePut(gcache, owner_id, wcache[owner_id])]
               ELSE IF outcome # 200 THEN failed
               ELSE LET rec  == WorkspaceRecord(owner_id)
                        name == FirstTruthy(<<rec.displayName, rec.name>>)
                    IN  [name |-> name, people |-> pcache,
                         workspace |-> CachePut(wcache, owner_id, name),
                         generic |-> CachePut(gcache, owner_id, name), sent |-> TRUE]
        ELSE IF owner_id # ""
          THEN [keep EXCEPT !.generic = CachePut(gcache, owner_id, "")]
        ELSE keep

\* the reverse-index fallback of export_numbers: [name, id]
ReverseLookup(phones, exts, owner_type, owner_id, owner_name, phone, ext) ==
    IF owner_name = "" /\ Upper(owner_type) \in {"PERSON", "PEOPLE"}
      THEN IF phone # << >> /\ phone \in DOMAIN phones
             THEN [name |-> phones[phone][2],
                   id   |-> IF owner_id = "" THEN phones[phone][1] ELSE owner_id]
           ELSE IF ext # << >> /\ ext \in DOMAIN exts
             THEN [name |-> exts[ext][2],
                   id   |-> IF owner_id = "" THEN exts[ext][1] ELSE owner_id]
           ELSE [name |-> owner_name, id |-> owner_id]
      ELSE [name |-> owner_name, id |-> owner_id]

RECURSIVE SeqsUpTo(_, _)
SeqsUpTo(S, n) ==
    IF n = 0 THEN {<< >>}
    ELSE LET shorter == SeqsUpTo(S, n - 1)
         IN  shorter \cup {Append(sq, x) : sq \in shorter, x \in S}

InitExport ==
    /\ enPeople \in {SubSeq(TelephonyPeople, 1, n) : n \in 0..MaxPeople}
    /\ enKey \in {"people", "items"}
    /\ enNumbers \in SeqsUpTo(NumberRows, MaxRows)
    /\ enCap \in ServerCaps
    /\ enPc = "build"
    /\ enStart = 0
    /\ phone_to_person = EmptyCache
    /\ ext_to_person = EmptyCache
    /\ people_cache = EmptyCache
    /\ workspace_cache = EmptyCache
    /\ generic_owner_cache = EmptyCache
    /\ enNumStart = 0
    /\ enPending = << >>
    /\ enShort = FALSE
    /\ enEvents = << >>
    /\ enWritten = << >>
    /\ ExecIdle
    /\ LinkIdle
    /\ OffsetIdle
    /\ ExtractIdle
    /\ GroupIdle
    /\ ResolveIdle
    /\ MatchIdle
    /\ EmailIdle
    /\ BatchIdle
    /\ MemberIdle
    /\ VoiceIdle
    /\ ReportIdle
    /\ WriteIdle

\* One iteration of the while loop of build_reverse_person_index.  A non-200
\* answer breaks out of the loop; an exception leaves the function and is
\* swallowed by the try/except of export_numbers.
AfterIndexFailure_abort == "raised"
AfterIndexFailure == "rows"

IndexPage(outcome) ==
    /\ enPc = "build"
    /\ enEvents' = Append(enEvents, Event("index_page", enStart, outcome))
    /\ IF outcome # 200
         THEN /\ enPc' = AfterIndexFailure
              /\ UNCHANGED <<enStart, phone_to_person, ext_to_person>>
         ELSE LET people == OrChain(PeoplePage(enPeople, enKey, enStart), <<"people", "items">>)
                  maps   == IndexPeople([phone |-> phone_to_person, ext |-> ext_to_person],
                                        people)
              IN  /\ phone_to_person' = maps.phone
                  /\ ext_to_person' = maps.ext
                  /\ IF people = << >> \/ Len(people) < page_size
                       THEN enPc' = "rows" /\ UNCHANGED enStart
                       ELSE enPc' = "build" /\ enStart' = enStart + page_size
    /\ UNCHANGED <<enPeople, enKey, enNumbers, enCap, people_cache, workspace_cache,
                   generic_owner_cache, enNumStart, enPending, enShort, enWritten>>
    /\ UNCHANGED <<execVars, linkVars, offsetVars, extractVars, groupVars, resolveVars, matchVars, emailVars, batchVars, memberVars, voiceVars, reportVars, writeVars>>

\* One request of list_org_numbers, made when export_numbers asks the
\* generator for the next number and no item of the last page is left.
FetchNumbers(outcome) ==
    /\ enPc = "rows"
    /\ enPending = << >>
    /\ enEvents' = Append(enEvents, Event("numbers_page", enNumStart, outcome))
    /\ IF outcome # 200
         THEN /\ enPc' = "raised"
              /\ UNCHANGED <<enPending, enShort, enNumStart>>
         ELSE LET its == OrChain(NumbersPage(enNumbers, enNumStart, enCap),
                                 CandidateKeys("list_org_numbers"))
              IN  /\ enPending' = its
                  /\ enShort' = (Len(its) < PAGE_MAX)
                  /\ enPc' = IF its = << >> THEN "done" ELSE "rows"
                  /\ enNumStart' = IF Len(its) < PAGE_MAX THEN enNumStart
                                   ELSE enNumStart + PAGE_MAX
    /\ UNCHANGED <<enPeople, enKey, enNumbers, enCap, enStart, phone_to_person, ext_to_person,
                   people_cache, workspace_cache, generic_owner_cache, enWritten>>
    /\ UNCHANGED <<execVars, linkVars, offsetVars, extractVars, groupVars, resolveVars, matchVars, emailVars, batchVars, memberVars, voiceVars, reportVars, writeVars>>

\* The body of `for num in list_org_numbers()` for one number; after the last
\* item of a short page the generator ends and so does the export.
ExportRow(outcome) ==
    /\ enPc = "rows"
    /\ enPending # << >>
    /\ LET num   == Head(enPending)
           phone == RemoveSpaces(num.phoneNumber)
           ext   == Strip(num.extension)
           res   == resolve_owner_name(people_cache, workspace_cache, generic_owner_cache,
                                       num.owner.type, num.owner.id, num.owner.name, outcome)
           rev   == ReverseLookup(phone_to_person, ext_to_person, num.owner.type,
                                  num.owner.id, res.name, phone, ext)
       IN  /\ (~res.sent => outcome = 200)
           /\ people_cache' = res.people
           /\ workspace_cache' = res.workspace
           /\ generic_owner_cache' = res.generic
           /\ enWritten' = Append(enWritten,
                 [phoneNumber |-> phone, extension |-> ext,
                  assigned |-> IF num.owner.type # "" THEN "yes" ELSE "no",
                  ownerType |-> num.owner.type, ownerName |-> rev.name,
                  ownerId |-> rev.id])
           /\ enEvents' = Append(enEvents,
                 Event("row", Len(enWritten) + 1, IF res.sent THEN outcome ELSE -1))
    /\ enPending' = Tail(enPending)
    /\ enPc' = IF Tail(enPending) = << >> /\ enShort THEN "done" ELSE "rows"
    /\ UNCHANGED <<enPeople, enKey, enNumbers, enCap, enStart, phone_to_person, ext_to_person,
                   enNumStart, enShort>>
    /\ UNCHANGED <<execVars, linkVars, offsetVars, extractVars, groupVars, resolveVars, matchVars, emailVars, batchVars, memberVars, voiceVars, reportVars, writeVars>>

NextExport ==
    \/ \E outcome \in RequestOutcomes : IndexPage(outcome)
    \/ \E outcome \in RequestOutcomes : FetchNumbers(outcome)
    \/ \E outcome \in RequestOutcomes : ExportRow(outcome)

SpecExport == InitExport /\ [][NextExport]_vars

(***************************************************************************)
(* The memoization caches of both programs in one specification: a run is  *)
(* either a run of the group-membership resolver or a run of the numbers   *)
(* export.                                                                 *)
(***************************************************************************)
InitCaches == InitResolve \/ InitExport

NextCaches == NextResolve \/ NextExport

SpecCaches == InitCaches /\ [][NextCaches]_vars

(***************************************************************************)
(* Group lookup by name: scim_find_group_by_name and groups_find_by_name   *)
(* (groupList.py), the name index of main (groupListv02.py).  Names are    *)
(* strings held as sequences of characters.                                *)
(***************************************************************************)
MaxGroups == 3
MaxFinds == 1

\* str.lower() / str.casefold() on the characters of the model
LowerChar(c) ==
    CASE c = "S" -> "s"
      [] c = "A" -> "a"
      [] c = "X" -> "x"
      [] c = "D" -> "d"
      [] c = "U" -> "u"
      [] OTHER   -> c

LowerStr(s) == [i \in 1..Len(s) |-> LowerChar(s[i])]

\* re.sub(r"\s+", " ", s)
RECURSIVE CollapseSpaces(_)
CollapseSpaces(s) ==
    IF Len(s) < 2 THEN s
    ELSE IF s[1] = " " /\ s[2] = " " THEN CollapseSpaces(Tail(s))
    ELSE <<s[1]>> \o CollapseSpaces(Tail(s))

\* norm(s) of groupListv02.py: casefold, trim, collapse whitespace
norm(s) == LowerStr(CollapseSpaces(Strip(s)))

\* a in b, for strings
IsSubstring(a, b) ==
    \E i \in 0..(Len(b) - Len(a)) : SubSeq(b, i + 1, i + Len(a)) = a

\* ---- the server
GroupNames ==
    { <<"S", "a">>, <<"s", "a">>, <<"s", "a", "x">>, <<"x", " ", " ", "S", "A">> }

GroupLists ==
    { [i \in 1..Len(names) |-> [id |-> i, displayName |-> names[i]]] :
        names \in SeqsUpTo(GroupNames, MaxGroups) }

NoMatch == [id |-> 0, displayName |-> << >>]

\* SCIM filter displayName eq "name": the matching groups, in server order
ScimResources(groups, name) ==
    SelectSeq(groups, LAMBDA g : LowerStr(g.displayName) = LowerStr(name))

\* ---- the client
\* for g in ...: if (g.get("displayName") or "").lower() == name.lower(): return g
FirstEqual(groups, name) ==
    LET hits == SelectSeq(groups, LAMBDA g : LowerStr(g.displayName) = LowerStr(name))
    IN  IF hits = << >> THEN NoMatch ELSE hits[1]

scim_find_group_by_name(groups, org, name, status) ==
    IF ~org THEN NoMatch
    ELSE IF status = 200 THEN FirstEqual(ScimResources(groups, name), name)
    ELSE NoMatch

groups_find_by_name(groups, name) == FirstEqual(groups, name)

\* dict assignment d[key] = val on a dict held as a sequence of <<key, val>>
\* in insertion order
DictPut(d, key, val) ==
    IF \E i \in 1..Len(d) : d[i][1] = key
      THEN [i \in 1..Len(d) |-> IF d[i][1] = key THEN <<key, val>> ELSE d[i]]
      ELSE Append(d, <<key, val>>)

\* for g in all_groups: by_norm_name[norm(disp)] = g
RECURSIVE NameIndex(_, _)
NameIndex(d, groups) ==
    IF groups = << >> THEN d
    ELSE NameIndex(DictPut(d, norm(Head(groups).displayName), Head(groups)), Tail(groups))

\* the lookup of one requested name in main of groupListv02.py
IndexFind(groups, raw_name) ==
    LET by_norm_name == NameIndex(<< >>, groups)
        wanted       == norm(raw_name)
        exact        == SelectSeq(by_norm_name, LAMBDA kv : kv[1] = wanted)
        candidates   == SelectSeq(by_norm_name, LAMBDA kv : IsSubstring(wanted, kv[1]))
    IN  IF exact # << >> THEN exact[1][2]
        ELSE IF candidates # << >> THEN candidates[1][2]
        ELSE NoMatch

\* the lookup of one requested name in main of groupList.py: SCIM, then /v1
ListFind(groups, org, name, status) ==
    LET g == scim_find_group_by_name(groups, org, name, status)
    IN  IF g # NoMatch THEN g ELSE groups_find_by_name(groups, name)

MatchScripts == {"groupList", "groupListv02"}

\* requested names, after row["groupName"].strip()
RequestedNames == { <<"s", "a">>, <<"S", "A">>, <<"x", " ", "s", "a">>, <<"a">> }

InitMatch ==
    /\ mtScript \in MatchScripts
    /\ mtGroups \in GroupLists
    /\ mtOrg \in BOOLEAN
    /\ mtFinds = << >>
    /\ ExecIdle
    /\ LinkIdle
    /\ OffsetIdle
    /\ ExtractIdle
    /\ GroupIdle
    /\ ResolveIdle
    /\ ExportIdle
    /\ EmailIdle
    /\ BatchIdle
    /\ MemberIdle
    /\ VoiceIdle
    /\ ReportIdle
    /\ WriteIdle

\* One iteration of `for name in names` up to the selection of the group.
FindGroup(name, status) ==
    /\ mtScript \in MatchScripts
    /\ Len(mtFinds) < MaxFinds
    /\ (mtScript = "groupListv02" \/ ~mtOrg) => status = 200
    /\ mtFinds' = Append(mtFinds,
          [name |-> name,
           selected |-> IF mtScript = "groupList"
                          THEN ListFind(mtGroups, mtOrg, name, status)
                          ELSE IndexFind(mtGroups, name)])
    /\ UNCHANGED <<mtScript, mtGroups, mtOrg>>
    /\ UNCHANGED <<execVars, linkVars, offsetVars, extractVars, groupVars, resolveVars, exportVars, emailVars, batchVars, memberVars, voiceVars, reportVars, writeVars>>

NextMatch == \E name \in RequestedNames, status \in {200, 403} : FindGroup(name, status)

SpecMatch == InitMatch /\ [][NextMatch]_vars

(***************************************************************************)
(* Email-to-id scripts: main of userDetails.py (phase 1 in steps, phase 2  *)
(* as one step) and update_person_ids of getPersonID.py.  Emails and ids   *)
(* are strings held as sequences of tokens.                                *)
(***************************************************************************)
MaxInput == 2

EmailScripts == {"userDetails", "getPersonID"}

\* ---- the input file and the server
InputEmails == { <<"a@x">>, <<" ", "b@x">>, <<"c@x">>, << >> }

InputIds == { << >>, <<" ">>, <<"OLD">> }

InputRows == [email : InputEmails, personid : InputIds]

\* GET /v1/people?email=...: the id of the first item, << >> when no item
KnownId(email) ==
    CASE email = <<"a@x">> -> <<"id_a">>
      [] email = <<"b@x">> -> <<"id_b">>
      [] OTHER             -> << >>

\* what one GET ends with: 200 with the server's answer, another status, a
\* connection or TLS error, or any other exception of the HTTP library
Resps == {"ok", "404", "429", "connerr", "raise"}

\* ---- the client
ErrorOf_bareStatus(resp) == <<resp>>
ErrorOf(resp) == IF resp = "404" THEN <<"ERROR_404">> ELSE <<"ERROR_429">>

NotFoundMark_blank == << >>
NotFoundMark == <<"NOT_FOUND">>

\* items[0]["id"] if items else "NOT_FOUND"
IdOrNotFound(email) == IF KnownId(email) # << >> THEN KnownId(email) ELSE NotFoundMark

\* the row needs a lookup: it has an email and, in getPersonID.py, no id yet
NeedsRequest(script, row) ==
    /\ Strip(row.email) # << >>
    /\ script = "getPersonID" => Strip(row.personid) = << >>

\* userDetails.py: `if not email: continue` drops the row from pid_rows
KeepsSkipped(script) == script = "getPersonID"

\* the output row of input row `row` once its id column is `personid`
OutRow_noid(script, row, personid) ==
    IF script = "userDetails"
      THEN [email |-> Strip(row.email), personid |-> row.personid]
      ELSE [email |-> row.email, personid |-> row.personid]
OutRow(script, row, personid) ==
    IF script = "userDetails"
      THEN [email |-> Strip(row.email), personid |-> personid]
      ELSE [email |-> row.email, personid |-> personid]

PcAfterRow(i) == IF i >= Len(e2Input) THEN "write" ELSE "rows"

InitEmail ==
    /\ e2Script \in EmailScripts
    /\ e2Env \in [token : BOOLEAN, file : BOOLEAN, header : BOOLEAN]
    /\ e2Script = "userDetails" => e2Env.token
    /\ ~e2Env.file => e2Env.header
    /\ e2Input \in SeqsUpTo(InputRows, MaxInput)
    /\ e2Script = "userDetails" => \A k \in 1..Len(e2Input) : e2Input[k].personid = << >>
    /\ (~e2Env.token \/ ~e2Env.file \/ ~e2Env.header) => e2Input = << >>
    /\ e2Pc = "start"
    /\ e2I = 0
    /\ e2Attempt = 1
    /\ e2Second = FALSE
    /\ e2Rows = << >>
    /\ e2Requests = << >>
    /\ e2Final = << >>
    /\ e2File = NotWritten
    /\ e2Exit = -1
    /\ ExecIdle
    /\ LinkIdle
    /\ OffsetIdle
    /\ ExtractIdle
    /\ GroupIdle
    /\ ResolveIdle
    /\ ExportIdle
    /\ MatchIdle
    /\ BatchIdle
    /\ MemberIdle
    /\ VoiceIdle
    /\ ReportIdle
    /\ WriteIdle

\* From the start of the script to the first row: os.getenv("WEBEX_TOKEN")
\* .strip() raises when the variable is unset (getPersonID.py only;
\* userDetails.py carries its token in the source); a missing file or a
\* missing 'email' header prints a message and returns.
E2Start ==
    /\ e2Pc = "start"
    /\ IF e2Script = "getPersonID" /\ ~e2Env.token
         THEN e2Pc' = "exited" /\ e2Exit' = 1
         ELSE IF ~e2Env.file \/ ~e2Env.header
           THEN e2Pc' = "exited" /\ e2Exit' = 0
           ELSE e2Pc' = PcAfterRow(0) /\ e2Exit' = e2Exit
    /\ UNCHANGED <<e2Script, e2Env, e2Input, e2I, e2Attempt, e2Second, e2Rows,
                   e2Requests, e2Final, e2File>>
    /\ UNCHANGED <<execVars, linkVars, offsetVars, extractVars, groupVars, resolveVars, exportVars, matchVars, batchVars, memberVars, voiceVars, reportVars, writeVars>>

\* A row that is passed over without a request.
E2Skip ==
    /\ e2Pc = "rows"
    /\ LET row == e2Input[e2I + 1]
       IN  /\ ~NeedsRequest(e2Script, row)
           /\ e2Rows' = IF KeepsSkipped(e2Script) THEN Append(e2Rows, row) ELSE e2Rows
    /\ e2I' = e2I + 1
    /\ e2Pc' = PcAfterRow(e2I + 1)
    /\ e2Final' = Append(e2Final, "skip")
    /\ UNCHANGED <<e2Script, e2Env, e2Input, e2Attempt, e2Second, e2Requests, e2File,
                   e2Exit>>
    /\ UNCHANGED <<execVars, linkVars, offsetVars, extractVars, groupVars, resolveVars, exportVars, matchVars, batchVars, memberVars, voiceVars, reportVars, writeVars>>

\* how the handling of one response leaves the row: [next, personid] with
\* next = "done" (row finished), "again" (attempt + 1), "second" (the GET
\* after a 429) or "crash" (uncaught exception)
HandleResp(script, attempt, second, email, resp) ==
    IF script = "getPersonID"
      THEN CASE resp = "ok"                  -> [next |-> "done", personid |-> IdOrNotFound(email)]
             [] resp \in {"404", "429"}      -> [next |-> "done", personid |-> ErrorOf(resp)]
             [] OTHER                        -> [next |-> "crash", personid |-> << >>]
      ELSE CASE resp = "ok"      -> [next |-> "done", personid |-> IdOrNotFound(email)]
             [] resp = "404"     -> [next |-> "done", personid |-> ErrorOf(resp)]
             [] resp = "429"     -> IF second
                                      THEN [next |-> "done", personid |-> ErrorOf(resp)]
                                      ELSE [next |-> "second", personid |-> << >>]
             [] resp = "connerr" -> IF attempt < 3
                                      THEN [next |-> "again", personid |-> << >>]
                                      ELSE [next |-> "done", personid |-> <<"ERROR_CONNECT">>]
             [] OTHER            -> [next |-> "crash", personid |-> << >>]

\* One GET of the lookup of the current row and what follows it up to the
\* next GET.
E2Request(resp) ==
    /\ e2Pc = "rows"
    /\ LET row   == e2Input[e2I + 1]
           email == Strip(row.email)
           h     == HandleResp(e2Script, e2Attempt, e2Second, email, resp)
       IN  /\ NeedsRequest(e2Script, row)
           /\ e2Requests' = Append(e2Requests, [row |-> e2I + 1, email |-> email])
           /\ e2Final' = IF h.next = "done" THEN Append(e2Final, resp) ELSE e2Final
           /\ CASE h.next = "done" ->
                     /\ e2Rows' = Append(e2Rows, OutRow(e2Script, row, h.personid))
                     /\ e2I' = e2I + 1
                     /\ e2Pc' = PcAfterRow(e2I + 1)
                     /\ e2Attempt' = 1
                     /\ e2Second' = FALSE
                     /\ UNCHANGED e2Exit
                [] h.next = "again" ->
                     /\ e2Attempt' = e2Attempt + 1
                     /\ e2Second' = FALSE
                     /\ UNCHANGED <<e2Rows, e2I, e2Pc, e2Exit>>
                [] h.next = "second" ->
                     /\ e2Second' = TRUE
                     /\ UNCHANGED <<e2Rows, e2I, e2Pc, e2Attempt, e2Exit>>
                [] OTHER ->
                     /\ e2Pc' = "exited"
                     /\ e2Exit' = 1
                     /\ UNCHANGED <<e2Rows, e2I, e2Attempt, e2Second>>
    /\ UNCHANGED <<e2Script, e2Env, e2Input, e2File>>
    /\ UNCHANGED <<execVars, linkVars, offsetVars, extractVars, groupVars, resolveVars, exportVars, matchVars, batchVars, memberVars, voiceVars, reportVars, writeVars>>

\* The output file is written once all rows are handled: personid.csv by
\* write_csv_atomic (userDetails.py), the input file itself rewritten in
\* place (getPersonID.py, the last statement before the normal end).
E2Write ==
    /\ e2Pc = "write"
    /\ e2File' = e2Rows
    /\ IF e2Script = "userDetails"
         THEN e2Pc' = "details" /\ UNCHANGED e2Exit
         ELSE e2Pc' = "exited" /\ e2Exit' = 0
    /\ UNCHANGED <<e2Script, e2Env, e2Input, e2I, e2Attempt, e2Second, e2Rows, e2Requests,
                   e2Final>>
    /\ UNCHANGED <<execVars, linkVars, offsetVars, extractVars, groupVars, resolveVars, exportVars, matchVars, batchVars, memberVars, voiceVars, reportVars, writeVars>>

\* the rows phase 2 of userDetails.py fetches details for
HasDetailRows ==
    \E k \in 1..Len(e2File) :
        e2File[k].personid \notin {<<"NOT_FOUND">>, <<"ERROR_CONNECT">>, <<"ERROR_404">>,
                                    <<"ERROR_429">>, << >>}

\* Phase 2 of userDetails.py as one step: it ends normally, or an exception
\* that its handlers do not catch leaves the script while a detail is fetched.
E2Details(raised) ==
    /\ e2Pc = "details"
    /\ raised => HasDetailRows
    /\ e2Pc' = "exited"
    /\ e2Exit' = IF raised THEN 1 ELSE 0
    /\ UNCHANGED <<e2Script, e2Env, e2Input, e2I, e2Attempt, e2Second, e2Rows, e2Requests,
                   e2Final, e2File>>
    /\ UNCHANGED <<execVars, linkVars, offsetVars, extractVars, groupVars, resolveVars, exportVars, matchVars, batchVars, memberVars, voiceVars, reportVars, writeVars>>

NextEmail ==
    \/ E2Start
    \/ E2Skip
    \/ \E resp \in Resps : E2Request(resp)
    \/ E2Write
    \/ \E raised \in BOOLEAN : E2Details(raised)

SpecEmail == InitEmail /\ [][NextEmail]_vars

(***************************************************************************)
(* Batch run of the group-membership scripts: main and the entry point of  *)
(* groupMemberACD.py and groupMemberAD.py.  The action of a row is a       *)
(* string held as a sequence of characters; ids and emails are atomic      *)
(* strings, "" standing for blank or None.  The server holds one group,    *)
(* "g1", whose id carries no org suffix (normalize_group_id leaves it as   *)
(* it is), and the persons of BatchPeople.                                 *)
(***************************************************************************)
MaxBatch == 2

BatchColumns == {"groupId", "personId", "email", "action", "newDisplayName", "newEmail"}

Line(action, g, p, e, ne) ==
    [action |-> action, groupId |-> g, personId |-> p, email |-> e,
     newDisplayName |-> "", newEmail |-> ne]

\* the data lines a run may read from group_members.csv
BatchLines ==
    {Line(<< >>, "g1", "p1", "a@x", ""),
     Line(<<"x">>, "g1", "p1", "a@x", ""),
     Line(<<"a", "d", "d">>, "g1", "p1", "a@x", ""),
     Line(<<"A", " ">>, "g1", "p1", "a@x", ""),
     Line(<<"D">>, "g1", "p1", "a@x", "")}
    \cup {Line(<<"a">>, g, pe[1], pe[2], "") :
            g \in {"", "g1"},
            pe \in {<<"", "">>, <<"p1", "">>, <<"", "a@x">>, <<"p2", "">>}}
    \cup {Line(<<"d">>, "g1", "", "a@x", ""), Line(<<"d">>, "", "p1", "", "")}
    \cup {Line(<<"u">>, "g1", pe[1], pe[2], ne) :
            pe \in {<<"p1", "a@x">>, <<"", "">>}, ne \in {"", "b@x"}}

\* csv.DictReader and (row.get(col) or "").strip(): a column the header line
\* lacks reads as None, that is blank
ReadRow(headers, line) ==
    [action         |-> IF "action" \in headers THEN Strip(line.action) ELSE << >>,
     groupId        |-> IF "groupId" \in headers THEN line.groupId ELSE "",
     personId       |-> IF "personId" \in headers THEN line.personId ELSE "",
     email          |-> IF "email" \in headers THEN line.email ELSE "",
     newDisplayName |-> IF "newDisplayName" \in headers THEN line.newDisplayName ELSE "",
     newEmail       |-> IF "newEmail" \in headers THEN line.newEmail ELSE ""]

\* action_raw[:1].lower() if action_raw else ""
ActionToken(action_raw) ==
    IF action_raw = << >> THEN "" ELSE LowerChar(action_raw[1])

\* the tuple the action token is looked up in
ValidActions(script) == IF script = "ACD" THEN {"a", "d", "u"} ELSE {"a", "d"}

\* ---- the server
BatchPeople == [person \in PersonIds |-> IF person = "p1" THEN <<"a@x">> ELSE <<"b@x">>]

\* the org of a person as GET /v1/people/{id} reports it; the group "g1" is
\* in the org named by WEBEX_ORG_ID, "org"
PersonOrg(person) == IF person = "p1" THEN "org" ELSE "other"

BatchGroups ==
    [exists : {TRUE}, source : {"Local"}, members : {<< >>, <<"p1">>}]

BatchPolicy == [pageSize |-> 2, addExisting |-> "refuse", removeMissing |-> 404]

\* How the network behaves for the requests of one row: "ok" (the server
\* answers each request), "exhausted" (each request ends with 503 after the
\* retries of backoff_request), "timeout" (the first request of the row
\* raises a requests exception: a timeout, a connection or a TLS error)
NetOutcomes == {"ok", "exhausted", "timeout"}

NetStatus(net, status) == IF net = "exhausted" THEN 503 ELSE status

\* ---- the client
Req(i, method, what) == [row |-> i, method |-> method, what |-> what]

LogEntry_zeroBased(i, action, g, p, e, result, detail) ==
    [row |-> i - 1, action |-> action, groupId |-> g, personId |-> p, email |-> e,
     result |-> result, detail |-> detail]
LogEntry(i, action, g, p, e, result, detail) ==
    [row |-> i, action |-> action, groupId |-> g, personId |-> p, email |-> e,
     result |-> result, detail |-> detail]

RowOut(entries, reqs, grp, people, cache) ==
    [entries |-> entries, reqs |-> reqs, grp |-> grp, people |-> people,
     cache |-> cache, end |-> ""]

StatusOf(ok) == IF ok THEN "ok" ELSE "error"

\* the rest of an Add row of groupMemberACD.py, given the answer sv of the
\* server to the POST
AddRowACD(i, row, person_id, email, lookups, people, cache, sv, ar) ==
    RowOut(<<LogEntry(i, row.action, row.groupId, person_id, email,
                      StatusOf(ar.ok), ar.detail)>>,
           lookups \o <<Req(i, "POST", "members")>>,
           sv.grp, people, cache)

\* the rest of a Delete row of groupMemberACD.py, given the answer sv of the
\* server to the DELETE and the result dr of delete_member
DeleteRowACD(i, row, person_id, email, lookups, people, cache, sv, dr) ==
    RowOut(<<LogEntry(i, row.action, row.groupId, person_id, email,
                      StatusOf(dr.ok), dr.detail)>>,
           lookups \o <<Req(i, "DELETE", "members")>>
             \o (IF sv.resp.status = 404 THEN <<Req(i, "GET", "members")>> ELSE << >>),
           sv.grp, people, cache)

\* the rest of an Update row of groupMemberACD.py, given the result up of
\* update_person
UpdateRowACD(i, row, person_id, email, lookups, grp, people, status, up) ==
    RowOut(<<LogEntry(i, row.action, row.groupId, person_id, email,
                      StatusOf(up.ok), up.detail)>>,
           lookups \o <<Req(i, "PUT", "people")>>,
           grp, ServerPut(people, person_id, row.newEmail, status), up.cache)

\* delete_member of groupMemberACD.py on the answer sv: is_member is asked
\* about the group as the server holds it after the DELETE
DeleteResultACD(net, sv, person_id) ==
    DeleteResult("ACD", sv.resp,
                 is_member(NetStatus(net, ServerGetGroup(sv.grp)), sv.grp.members,
                           BatchPolicy.pageSize, person_id))

\* what the server answers to the POST / DELETE / PATCH of a row
Answer(script, op, net, grp, person_id) ==
    IF net = "exhausted" THEN [resp |-> Response(503, ""), grp |-> grp]
    ELSE IF op = "a" THEN ServerAdd(script, BatchPolicy, grp, person_id)
    ELSE ServerRemove(script, BatchPolicy, grp, person_id)

\* One iteration of the for loop of main (groupMemberACD.py) after
\* resolve_person, when every request of the row is answered: the log
\* entries appended, the requests sent, the server and the cache afterwards
ResolvedRowACD(i, row, net, grp, people, cache, action, person_id, email, lookups) ==
    IF action \in {"a", "d"} /\ (row.groupId = "" \/ person_id = "")
      THEN RowOut(<<LogEntry(i, row.action, row.groupId, person_id, email,
                             "error", "groupId and personId/email required")>>,
                  lookups, grp, people, cache)
    ELSE IF action = "a"
      THEN AddRowACD(i, row, person_id, email, lookups, people, cache,
                     Answer("ACD", "a", net, grp, person_id),
                     AddResult("ACD", Answer("ACD", "a", net, grp, person_id).resp))
    ELSE IF action = "d"
      THEN DeleteRowACD(i, row, person_id, email, lookups, people, cache,
                        Answer("ACD", "d", net, grp, person_id),
                        DeleteResultACD(net, Answer("ACD", "d", net, grp, person_id),
                                        person_id))
    ELSE IF person_id = ""
      THEN RowOut(<<LogEntry(i, row.action, row.groupId, "", email,
                             "error", "person not found")>>,
                  lookups, grp, people, cache)
    ELSE IF row.newDisplayName = "" /\ row.newEmail = ""
      THEN RowOut(<<LogEntry(i, row.action, row.groupId, person_id, email,
                             "skip", "no changes")>>,
                  lookups, grp, people, cache)
    ELSE UpdateRowACD(i, row, person_id, email, lookups, grp, people,
                      NetStatus(net, 200),
                      update_person(cache, person_id, row.newDisplayName,
                                    row.newEmail, NetStatus(net, 200)))

\* person_id = pid or person_id; email = resolved_email or email; one GET
\* per lookup resolve_person made
AfterResolveACD(i, row, net, grp, people, action, res) ==
    ResolvedRowACD(i, row, net, grp, people, res.cache, action,
                   IF res.pid # "" THEN res.pid ELSE row.personId,
                   IF res.found # "" THEN res.found ELSE row.email,
                   [k \in 1..Len(res.lookups) |-> Req(i, "GET", "people")])

\* the rows that end before resolve_person: blank and invalid actions
UnresolvedRow(script, i, row, action, grp, people, cache) ==
    IF action = ""
      THEN RowOut(<<LogEntry(i, <<"(none)">>, row.groupId, row.personId, row.email,
                             "noop", "no action (blank)")>>,
                  << >>, grp, people, cache)
      ELSE RowOut(<<LogEntry(i, row.action, row.groupId, row.personId, row.email,
                             "skip", "invalid action")>>,
                  << >>, grp, people, cache)

\* One iteration of the for loop of main (groupMemberACD.py)
RowACD(i, row, net, grp, people, cache) ==
    IF ActionToken(row.action) \notin ValidActions("ACD")
      THEN UnresolvedRow("ACD", i, row, ActionToken(row.action), grp, people, cache)
      ELSE AfterResolveACD(i, row, net, grp, people, ActionToken(row.action),
                           resolve_person("ACD", cache, people, row.personId,
                                          row.email, NetStatus(net, 200)))

\* add_member / delete_member of groupMemberAD.py after the pre-check, given
\* the answer sv of the server to the PATCH
PatchedAD(i, op, net, person_id, sv) ==
    [res  |-> IF op = "a" THEN AddResult("AD", sv.resp)
              ELSE DeleteResult("AD", sv.resp,
                       is_member(NetStatus(net, ServerGetGroup(sv.grp)),
                                 sv.grp.members, BatchPolicy.pageSize, person_id)),
     grp  |-> sv.grp,
     reqs |-> <<Req(i, "GET", "group"), Req(i, "PATCH", "group")>>
              \o (IF op = "d" /\ sv.resp.status \in {400, 404}
                    THEN <<Req(i, "GET", "members")>> ELSE << >>)]

\* add_member / delete_member of groupMemberAD.py: the pre-check
\* group_is_writable, then the PATCH, then is_member on 400 / 404
MemberOpAD(i, op, net, grp, person_id) ==
    IF ~group_is_writable(NetStatus(net, ServerGetGroup(grp)), grp)
      THEN [res |-> Result(FALSE, "read-only"), grp |-> grp,
            reqs |-> <<Req(i, "GET", "group")>>]
      ELSE PatchedAD(i, op, net, person_id, Answer("AD", op, net, grp, person_id))

\* the rest of an Add / Delete row of groupMemberAD.py, given the outcome m
\* of add_member / delete_member
MemberRowAD(i, row, logged, person_id, email, before, people, cache, m) ==
    RowOut(<<LogEntry(i, logged, row.groupId, person_id, email,
                      StatusOf(m.res.ok), m.res.detail)>>,
           before \o m.reqs, m.grp, people, cache)

\* One iteration of the for loop of main (groupMemberAD.py) after
\* resolve_person and get_person_org_uuid; group_org is the org of the
\* group, person_org the org of the person or "" for None
ResolvedRowAD(i, row, net, grp, people, cache, action, person_id, email, before, group_org, person_org, logged) ==
    IF row.groupId = "" \/ person_id = ""
      THEN RowOut(<<LogEntry(i, logged, row.groupId, person_id, email,
                             "error", "groupId and personId/email required")>>,
                  before, grp, people, cache)
    ELSE IF action = "a" /\ group_org # "" /\ person_org # "" /\ group_org # person_org
      THEN RowOut(<<LogEntry(i, logged, row.groupId, person_id, email,
                             "error", "cross-org")>>,
                  before, grp, people, cache)
    ELSE MemberRowAD(i, row, logged, person_id, email, before, people, cache,
                     MemberOpAD(i, action, net, grp, person_id))

\* get_person_org_uuid(person_id) if person_id else None, and the GET it sends
WithPersonOrgAD(i, row, net, grp, people, cache, action, person_id, email, lookups) ==
    ResolvedRowAD(i, row, net, grp, people, cache, action, person_id, email,
                  lookups \o (IF person_id # "" THEN <<Req(i, "GET", "person")>>
                              ELSE << >>),
                  "org",
                  IF person_id # "" /\ net # "exhausted" THEN PersonOrg(person_id)
                  ELSE "",
                  IF action = "a" THEN <<"A">> ELSE <<"D">>)

AfterResolveAD(i, row, net, grp, people, action, res) ==
    WithPersonOrgAD(i, row, net, grp, people, res.cache, action,
                    IF res.pid # "" THEN res.pid ELSE row.personId,
                    IF res.found # "" THEN res.found ELSE row.email,
                    [k \in 1..Len(res.lookups) |-> Req(i, "GET", "people")])

\* One iteration of the for loop of main (groupMemberAD.py)
RowAD(i, row, net, grp, people, cache) ==
    IF ActionToken(row.action) \notin ValidActions("AD")
      THEN UnresolvedRow("AD", i, row, ActionToken(row.action), grp, people, cache)
      ELSE AfterResolveAD(i, row, net, grp, people, ActionToken(row.action),
                          resolve_person("AD", cache, people, row.personId,
                                         row.email, NetStatus(net, 200)))

RowAnswered(script, i, row, net, grp, people, cache) ==
    IF script = "ACD" THEN RowACD(i, row, net, grp, people, cache)
    ELSE RowAD(i, row, net, grp, people, cache)

\* a row cut short: nothing logged, the state as it was
Halted(end, reqs, grp, people, cache, seen) ==
    [entries |-> << >>, reqs |-> reqs, grp |-> grp, people |-> people,
     cache |-> cache, end |-> end, net |-> seen]

\* One iteration of the for loop with what can cut it short, given the row
\* as it goes when every request is answered (answered) and as it goes with
\* the network as it is (actual): hdrs() is evaluated before each request is
\* sent and dies (SystemExit) without a token; a requests exception leaves
\* backoff_request and main (no handler in groupMemberACD.py, "raise" in
\* groupMemberAD.py).  The field net is what btNets records: the network is
\* not involved in a row that sends no request or dies before its first one.
CutShort(token, net, grp, people, cache, answered, actual) ==
    IF answered.reqs = << >> THEN [answered EXCEPT !.end = ""] @@ [net |-> "none"]
    ELSE IF ~token THEN Halted("died", << >>, grp, people, cache, "no token")
    ELSE IF net = "timeout"
      THEN Halted("raised", <<Head(answered.reqs)>>, grp, people, cache, net)
    ELSE actual @@ [net |-> net]

ProcessRow(script, token, i, row, net, grp, people, cache) ==
    CutShort(token, net, grp, people, cache,
             RowAnswered(script, i, row, "ok", grp, people, cache),
             RowAnswered(script, i, row, IF net = "timeout" THEN "ok" ELSE net,
                         grp, people, cache))

\* the runs: every precondition present with one of the header lines, or the
\* full header line with one precondition absent
HeaderLines ==
    {BatchColumns, BatchColumns \ {"groupId"}, BatchColumns \ {"personId"},
     BatchColumns \ {"action"}}

BatchEnvs ==
    {[token |-> FALSE, org |-> TRUE, file |-> TRUE],
     [token |-> TRUE, org |-> FALSE, file |-> TRUE],
     [token |-> TRUE, org |-> TRUE, file |-> FALSE]}

InitBatch ==
    /\ btScript \in ScriptKinds
    /\ \/ /\ btEnv = [token |-> TRUE, org |-> TRUE, file |-> TRUE]
          /\ btHeaders \in HeaderLines
       \/ /\ btEnv \in BatchEnvs
          /\ btHeaders = BatchColumns
    /\ btLen \in IF btEnv.file THEN 1..MaxBatch ELSE {0}
    /\ btGroup \in BatchGroups
    /\ btPeople = BatchPeople
    /\ btCache = EmptyCache
    /\ btPc = "start"
    /\ btInput = << >>
    /\ btNets = << >>
    /\ ops = << >>
    /\ btEnd = ""
    /\ btRequests = << >>
    /\ all_ops = << >>
    /\ btLog = LogNotWritten
    /\ btExit = -1
    /\ ExecIdle
    /\ LinkIdle
    /\ OffsetIdle
    /\ ExtractIdle
    /\ GroupIdle
    /\ ResolveIdle
    /\ ExportIdle
    /\ MatchIdle
    /\ EmailIdle
    /\ MemberIdle
    /\ VoiceIdle
    /\ ReportIdle
    /\ WriteIdle

\* main up to the for loop: die() without the input file, in
\* groupMemberAD.py also without WEBEX_ORG_ID; then the rows are read
BatchStart ==
    /\ btPc = "start"
    /\ IF ~btEnv.file \/ (btScript = "AD" /\ ~btEnv.org)
         THEN /\ btEnd' = "died"
              /\ btPc' = "finally"
         ELSE /\ btPc' = "rows"
              /\ UNCHANGED btEnd
    /\ UNCHANGED <<btScript, btEnv, btHeaders, btLen, btGroup, btPeople, btCache,
                   btInput, btNets, ops, btRequests, all_ops, btLog, btExit>>
    /\ UNCHANGED <<execVars, linkVars, offsetVars, extractVars, groupVars, resolveVars, exportVars, matchVars, emailVars, memberVars, voiceVars, reportVars, writeVars>>

\* one iteration of the for loop of main
BatchRow(line, net) ==
    /\ btPc = "rows"
    /\ Len(btInput) < btLen
    /\ \E o \in {ProcessRow(btScript, btEnv.token, Len(btInput) + 1,
                            ReadRow(btHeaders, line), net, btGroup, btPeople, btCache)} :
        /\ (o.net \in {"none", "no token"} => net = "ok")
        /\ btInput' = Append(btInput, ReadRow(btHeaders, line))
        /\ btNets' = Append(btNets, o.net)
        /\ ops' = ops \o o.entries
        /\ btRequests' = btRequests \o o.reqs
        /\ btGroup' = o.grp
        /\ btPeople' = o.people
        /\ btCache' = o.cache
        /\ IF o.end # ""
             THEN /\ btEnd' = o.end
                  /\ btPc' = "finally"
             ELSE UNCHANGED <<btEnd, btPc>>
    /\ UNCHANGED <<btScript, btEnv, btHeaders, btLen, all_ops, btLog, btExit>>
    /\ UNCHANGED <<execVars, linkVars, offsetVars, extractVars, groupVars, resolveVars, exportVars, matchVars, emailVars, memberVars, voiceVars, reportVars, writeVars>>

\* return ops, and all_ops = main() in the entry point
BatchReturn ==
    /\ btPc = "rows"
    /\ Len(btInput) = btLen
    /\ btEnd' = "returned"
    /\ all_ops' = ops
    /\ btPc' = "finally"
    /\ UNCHANGED <<btScript, btEnv, btHeaders, btLen, btGroup, btPeople, btCache,
                   btInput, btNets, ops, btRequests, btLog, btExit>>
    /\ UNCHANGED <<execVars, linkVars, offsetVars, extractVars, groupVars, resolveVars, exportVars, matchVars, emailVars, memberVars, voiceVars, reportVars, writeVars>>

\* the except clauses and the finally clause of the entry point: SystemExit
\* is passed over, any other exception is printed, write_log(all_ops) runs,
\* and the interpreter ends normally
BatchFinally ==
    /\ btPc = "finally"
    /\ btLog' = all_ops
    /\ btExit' = 0
    /\ btPc' = "exited"
    /\ UNCHANGED <<btScript, btEnv, btHeaders, btLen, btGroup, btPeople, btCache,
                   btInput, btNets, ops, btEnd, btRequests, all_ops>>
    /\ UNCHANGED <<execVars, linkVars, offsetVars, extractVars, groupVars, resolveVars, exportVars, matchVars, emailVars, memberVars, voiceVars, reportVars, writeVars>>

BatchRows == \E line \in BatchLines, net \in NetOutcomes : BatchRow(line, net)

NextBatch == BatchStart \/ BatchRows \/ BatchReturn \/ BatchFinally

SpecBatch == InitBatch /\ [][NextBatch]_vars

(***************************************************************************)
(* is_member (groupMemberACD.py, groupMemberAD.py) on its own, against a   *)
(* server that may answer with any body: the person asked about is "p1";   *)
(* a field the body lacks is held as -1.                                   *)
(***************************************************************************)
MaxScan == 3

\* the bodies of the 200 responses of the members endpoint
MemberBodies ==
    [members : {<< >>, <<"p2">>, <<"p2", "p3">>, <<"p1">>},
     totalResults : {-1, 0, 1, 2, 3},
     itemsPerPage : {-1, 0, 1, 2},
     startIndex : {-1, 1, 2}]

\* int(data.get("totalResults", 0) or 0)
ScanTotal(d) == IF d.totalResults = -1 THEN 0 ELSE d.totalResults

\* int(data.get("itemsPerPage", len(members)) or 0)
ScanPer(d) == IF d.itemsPerPage = -1 THEN Len(d.members) ELSE d.itemsPerPage

\* int(data.get("startIndex", params["startIndex"]))
ScanStart(d, start) == IF d.startIndex = -1 THEN start ELSE d.startIndex

\* if total and (start + per) <= total
ScanGoesOn(d, start) ==
    ScanTotal(d) # 0 /\ ScanStart(d, start) + ScanPer(d) <= ScanTotal(d)

InitMember ==
    /\ imPc = "loop"
    /\ imStart = 1
    /\ imLog = << >>
    /\ imData = NoBody
    /\ imResult = FALSE
    /\ ExecIdle
    /\ LinkIdle
    /\ OffsetIdle
    /\ ExtractIdle
    /\ GroupIdle
    /\ ResolveIdle
    /\ ExportIdle
    /\ MatchIdle
    /\ EmailIdle
    /\ BatchIdle
    /\ VoiceIdle
    /\ ReportIdle
    /\ WriteIdle

\* one iteration of the while loop whose request is answered with 200
MemberPage(d) ==
    /\ imPc = "loop"
    /\ Len(imLog) < MaxScan
    /\ imLog' = Append(imLog, imStart)
    /\ imData' = d
    /\ IF InSeq("p1", d.members)
         THEN /\ imPc' = "returned"
              /\ imResult' = TRUE
              /\ UNCHANGED imStart
         ELSE IF ScanGoesOn(d, imStart)
           THEN /\ imStart' = ScanStart(d, imStart) + ScanPer(d)
                /\ UNCHANGED <<imPc, imResult>>
           ELSE /\ imPc' = "returned"
                /\ imResult' = FALSE
                /\ UNCHANGED imStart
    /\ UNCHANGED <<execVars, linkVars, offsetVars, extractVars, groupVars, resolveVars, exportVars, matchVars, emailVars, batchVars, voiceVars, reportVars, writeVars>>

\* one iteration whose request is answered with another status: return False
MemberFails ==
    /\ imPc = "loop"
    /\ Len(imLog) < MaxScan
    /\ imLog' = Append(imLog, imStart)
    /\ imPc' = "returned"
    /\ imResult' = FALSE
    /\ UNCHANGED <<imStart, imData>>
    /\ UNCHANGED <<execVars, linkVars, offsetVars, extractVars, groupVars, resolveVars, exportVars, matchVars, emailVars, batchVars, voiceVars, reportVars, writeVars>>

MemberPages == \E d \in MemberBodies : MemberPage(d)

NextMember == MemberPages \/ MemberFails

SpecMember == InitMember /\ [][NextMember]_vars

(***************************************************************************)
(* The voicemail scripts: build_voicemail_body and main of vm2emEnaDis.py, *)
(* main of listUserVoicemailParameters.py.  Both read email2personID.csv,  *)
(* the file the id-resolution step writes.  Strings are held as sequences  *)
(* of tokens, None as the value None.                                      *)
(***************************************************************************)
MaxVmRows == 1

VoiceScripts == {"vm2emEnaDis", "listUserVoicemailParameters"}

\* the command lines argparse accepts
VoiceArgs ==
    [vm : {"on", "off"},
     mode : {"internal", "copy", "external"},
     dest : {None, << >>, <<"d@x">>},
     mwi : {None, <<"on">>, <<"off">>},
     external : {None, << >>, <<"e@x">>},
     notify : {None, <<"on">>, <<"off">>},
     notify_dest : {None, << >>, <<"n@x">>}]

\* listUserVoicemailParameters.py takes no arguments
DefaultArgs == [vm |-> "on", mode |-> "copy", dest |-> None, mwi |-> None, external |-> None, notify |-> None, notify_dest |-> None]

\* the personid column as the id-resolution step leaves it
ResolvedIds ==
    { << >>, <<" ">>, <<"id_a">>, <<"NOT_FOUND">>, <<"ERROR_404">>, <<"ERROR_CONNECT">> }

VoiceRows == [email : { << >>, <<"a@x">> }, personid : ResolvedIds]

\* the server has voicemail settings for the person "id_a" only
PersonExists(person_id) == person_id = <<"id_a">>

PutStatuses(person_id) == IF PersonExists(person_id) THEN {204, 503} ELSE {404}

GetStatuses(person_id) == IF PersonExists(person_id) THEN {200, 503} ELSE {404}

\* x or ""
OrBlank(x) == IF x = None THEN << >> ELSE x

\* apply_mwi(default_val)
apply_mwi(mwi, default_val) == IF mwi = None THEN default_val ELSE mwi = <<"on">>

\* apply_notify, once enabled and dest are chosen
NotifyChecked(enabled, dest) ==
    IF enabled /\ dest = << >>
      THEN [enabled |-> FALSE, destination |-> << >>]
      ELSE [enabled |-> enabled, destination |-> dest]

\* apply_notify(default_enabled, default_dest)
apply_notify(notify, notify_dest, default_enabled, default_dest) ==
    NotifyChecked(IF notify = None THEN default_enabled ELSE notify = <<"on">>,
                  IF notify_dest # None THEN notify_dest ELSE default_dest)

Settings(enabled, storageType, mwiEnabled, externalEmail, copyEnabled, emailId, notifications) ==
    [enabled |-> enabled, storageType |-> storageType, mwiEnabled |-> mwiEnabled,
     externalEmail |-> externalEmail, emailCopyEnabled |-> copyEnabled,
     emailId |-> emailId, notifications |-> notifications]

\* build_voicemail_body(vm_on, mode, dest_email, mwi=, external=, notify=, notify_dest=)
build_voicemail_body(vm_on, mode, dest_email, mwi, external, notify, notify_dest) ==
    IF ~vm_on
      THEN Settings(FALSE, "INTERNAL", apply_mwi(mwi, FALSE), << >>, FALSE, << >>,
                    apply_notify(notify, notify_dest, FALSE, << >>))
    ELSE IF mode = "internal"
      THEN Settings(TRUE, "INTERNAL", apply_mwi(mwi, TRUE), << >>, FALSE, << >>,
                    apply_notify(notify, notify_dest, FALSE, OrBlank(dest_email)))
    ELSE IF mode = "copy"
      THEN Settings(TRUE, "INTERNAL", apply_mwi(mwi, TRUE), << >>,
                    OrBlank(dest_email) # << >>, OrBlank(dest_email),
                    apply_notify(notify, notify_dest, FALSE, OrBlank(dest_email)))
    ELSE Settings(TRUE, "EXTERNAL", apply_mwi(mwi, FALSE),
                  IF external # None THEN external ELSE OrBlank(dest_email),
                  FALSE, << >>,
                  apply_notify(notify, notify_dest, FALSE, OrBlank(dest_email)))

\* main: the dest_email of a row
DestEmail(args, email) ==
    IF args.mode = "copy"
      THEN IF args.dest \notin {None, << >>} THEN args.dest
           ELSE IF email # << >> THEN email ELSE None
      ELSE IF OrBlank(args.dest) # << >> THEN args.dest
           ELSE IF email # << >> THEN email ELSE None

\* main: the body sent for a row
RowBody(args, email) ==
    build_voicemail_body(args.vm = "on", args.mode, DestEmail(args, email),
                         args.mwi, args.external, args.notify,
                         IF args.notify_dest # None THEN args.notify_dest ELSE email)

VmRequest(method, person_id, body) ==
    [method |-> method, person_id |-> person_id, body |-> body]

VmPcAfter(i) == IF i >= Len(vmInput) THEN "end" ELSE "rows"

InitVoice ==
    /\ vmScript \in VoiceScripts
    /\ vmArgs \in IF vmScript = "vm2emEnaDis" THEN VoiceArgs ELSE {DefaultArgs}
    /\ vmInput \in SeqsUpTo(VoiceRows, MaxVmRows)
    /\ vmI = 0
    /\ vmPc = IF vmInput = << >> THEN "end" ELSE "rows"
    /\ vmRequests = << >>
    /\ vmServer = NoSettings
    /\ rows_out = << >>
    /\ vmTally = [ok |-> 0, fail |-> 0]
    /\ vmExit = -1
    /\ ExecIdle
    /\ LinkIdle
    /\ OffsetIdle
    /\ ExtractIdle
    /\ GroupIdle
    /\ ResolveIdle
    /\ ExportIdle
    /\ MatchIdle
    /\ EmailIdle
    /\ BatchIdle
    /\ MemberIdle
    /\ ReportIdle
    /\ WriteIdle

\* a row whose personid is blank: `if not person_id: ... continue`
VmSkipRow ==
    /\ vmPc = "rows"
    /\ Strip(vmInput[vmI + 1].personid) = << >>
    /\ vmTally' = IF vmScript = "vm2emEnaDis"
                    THEN [vmTally EXCEPT !.fail = @ + 1] ELSE vmTally
    /\ vmI' = vmI + 1
    /\ vmPc' = VmPcAfter(vmI + 1)
    /\ UNCHANGED <<vmScript, vmArgs, vmInput, vmRequests, vmServer, rows_out, vmExit>>
    /\ UNCHANGED <<execVars, linkVars, offsetVars, extractVars, groupVars, resolveVars, exportVars, matchVars, emailVars, batchVars, memberVars, reportVars, writeVars>>

\* the server after the PUT
AfterPut(put, body) == IF put \in {200, 204} THEN body ELSE vmServer

\* a row of vm2emEnaDis.py with a personid, answered with the statuses put
\* and get: the PUT, the counters, the read-back GET and the collected row
VmUpdateRowAs(email, person_id, body, put, get) ==
    /\ vmRequests' = vmRequests \o <<VmRequest("PUT", person_id, body),
                                     VmRequest("GET", person_id, NoSettings)>>
    /\ vmServer' = AfterPut(put, body)
    /\ vmTally' = IF put \in {200, 204} THEN [vmTally EXCEPT !.ok = @ + 1]
                  ELSE [vmTally EXCEPT !.fail = @ + 1]
    /\ rows_out' = IF get = 200
                     THEN Append(rows_out, [email |-> email, personId |-> person_id,
                                            data |-> AfterPut(put, body)])
                     ELSE rows_out

VmUpdateRow ==
    /\ vmScript = "vm2emEnaDis"
    /\ vmPc = "rows"
    /\ Strip(vmInput[vmI + 1].personid) # << >>
    /\ \E email \in {Strip(vmInput[vmI + 1].email)}, person_id \in {Strip(vmInput[vmI + 1].personid)} :
         \E put \in PutStatuses(person_id), get \in GetStatuses(person_id) :
            VmUpdateRowAs(email, person_id, RowBody(vmArgs, email), put, get)
    /\ vmI' = vmI + 1
    /\ vmPc' = VmPcAfter(vmI + 1)
    /\ UNCHANGED <<vmScript, vmArgs, vmInput, vmExit>>
    /\ UNCHANGED <<execVars, linkVars, offsetVars, extractVars, groupVars, resolveVars, exportVars, matchVars, emailVars, batchVars, memberVars, reportVars, writeVars>>

\* a row of listUserVoicemailParameters.py with a personid: the GET, and the
\* record written when it is answered with 200
VmListRow ==
    /\ vmScript = "listUserVoicemailParameters"
    /\ vmPc = "rows"
    /\ Strip(vmInput[vmI + 1].personid) # << >>
    /\ \E email \in {Strip(vmInput[vmI + 1].email)}, person_id \in {Strip(vmInput[vmI + 1].personid)} :
         \E get \in GetStatuses(person_id) :
            /\ vmRequests' = Append(vmRequests, VmRequest("GET", person_id, NoSettings))
            /\ rows_out' = IF get = 200
                             THEN Append(rows_out, [email |-> email, personId |-> person_id,
                                                    data |-> vmServer])
                             ELSE rows_out
    /\ vmI' = vmI + 1
    /\ vmPc' = VmPcAfter(vmI + 1)
    /\ UNCHANGED <<vmScript, vmArgs, vmInput, vmServer, vmTally, vmExit>>
    /\ UNCHANGED <<execVars, linkVars, offsetVars, extractVars, groupVars, resolveVars, exportVars, matchVars, emailVars, batchVars, memberVars, reportVars, writeVars>>

\* after the last row: `if fail and ok == 0: sys.exit(1)`
VmEnd ==
    /\ vmPc = "end"
    /\ vmPc' = "exited"
    /\ vmExit' = IF vmScript = "vm2emEnaDis" /\ vmTally.fail > 0 /\ vmTally.ok = 0
                   THEN 1 ELSE 0
    /\ UNCHANGED <<vmScript, vmArgs, vmInput, vmI, vmRequests, vmServer, rows_out, vmTally>>
    /\ UNCHANGED <<execVars, linkVars, offsetVars, extractVars, groupVars, resolveVars, exportVars, matchVars, emailVars, batchVars, memberVars, reportVars, writeVars>>

NextVoice == VmSkipRow \/ VmUpdateRow \/ VmListRow \/ VmEnd

SpecVoice == InitVoice /\ [][NextVoice]_vars

(***************************************************************************)
(* The group report: the loop over the requested names and the writing of  *)
(* groups.csv in main of groupList.py and of groupListv02.py.  The lookup  *)
(* of a name is ListFind resp. IndexFind.                                  *)
(***************************************************************************)
MaxNames == 2

\* the groups of the server and their members
ReportGroups ==
    { << [id |-> 1, displayName |-> <<"S", "a">>] >>,
      << [id |-> 1, displayName |-> <<"S", "a">>], [id |-> 2, displayName |-> <<"s", "a", "x">>] >> }

MemberLists == { << >>, <<"p1">>, <<"p1", "p2">> }

\* how the row of a group leaves the loop: groupListv02.py counts the
\* members on the spot, groupList.py leaves the count to the writing
ReportRow(script, gid, ms) ==
    [groupId |-> gid, memberCount |-> IF script = "groupListv02" THEN Len(ms) ELSE -1]

\* for m in ms: members_out.append({"groupId": gid, ...})
MemberRows(gid, ms) == [k \in 1..Len(ms) |-> [groupId |-> gid, personId |-> ms[k]]]

\* counts[m["groupId"]] = counts.get(m["groupId"], 0) + 1 over members_out,
\* then counts.get(row["groupId"], 0)
CountFor(rows, k) ==
    Cardinality({j \in 1..Len(members_out) : members_out[j].groupId = rows[k].groupId})

ReportPcAfter(i) == IF i >= Len(grNames) THEN "write" ELSE "names"

InitReport ==
    /\ grScript \in MatchScripts
    /\ grGroups \in ReportGroups
    /\ grMembers \in [1..2 -> MemberLists]
    /\ grOrg \in BOOLEAN
    /\ grNames \in SeqsUpTo(RequestedNames, MaxNames) \ {<< >>}
    /\ grI = 0
    /\ grPc = "names"
    /\ groups_out = << >>
    /\ members_out = << >>
    /\ grFetched = << >>
    /\ grFile = ReportNotWritten
    /\ ExecIdle
    /\ LinkIdle
    /\ OffsetIdle
    /\ ExtractIdle
    /\ GroupIdle
    /\ ResolveIdle
    /\ ExportIdle
    /\ MatchIdle
    /\ EmailIdle
    /\ BatchIdle
    /\ MemberIdle
    /\ VoiceIdle
    /\ WriteIdle

\* one iteration of the loop for the group g the lookup selected, ms being
\* the members fetched ([] after an HTTPError)
ReportGroup(g, ms) ==
    IF g = NoMatch
      THEN UNCHANGED <<groups_out, members_out, grFetched>>
      ELSE /\ groups_out' = Append(groups_out, ReportRow(grScript, g.id, ms))
           /\ members_out' = members_out \o MemberRows(g.id, ms)
           /\ grFetched' = Append(grFetched, Len(ms))

\* One iteration of `for name in names`: the lookup, the members fetch and
\* the rows appended.
ReportName(status, fetched) ==
    /\ grPc = "names"
    /\ (grScript = "groupListv02" \/ ~grOrg) => status = 200
    /\ \E g \in {IF grScript = "groupList"
                   THEN ListFind(grGroups, grOrg, grNames[grI + 1], status)
                   ELSE IndexFind(grGroups, grNames[grI + 1])} :
          /\ g = NoMatch => fetched
          /\ ReportGroup(g, IF fetched /\ g # NoMatch THEN grMembers[g.id] ELSE << >>)
    /\ grI' = grI + 1
    /\ grPc' = ReportPcAfter(grI + 1)
    /\ UNCHANGED <<grScript, grGroups, grMembers, grOrg, grNames, grFile>>
    /\ UNCHANGED <<execVars, linkVars, offsetVars, extractVars, groupVars, resolveVars, exportVars, matchVars, emailVars, batchVars, memberVars, voiceVars, writeVars>>

\* Writing groups.csv: groupList.py fills memberCount from the counts over
\* members_out, groupListv02.py writes the rows as they are.
ReportWrite ==
    /\ grPc = "write"
    /\ grFile' = IF grScript = "groupList"
                   THEN [k \in 1..Len(groups_out) |->
                           [groups_out[k] EXCEPT !.memberCount = CountFor(groups_out, k)]]
                   ELSE groups_out
    /\ grPc' = "done"
    /\ UNCHANGED <<grScript, grGroups, grMembers, grOrg, grNames, grI, groups_out,
                   members_out, grFetched>>
    /\ UNCHANGED <<execVars, linkVars, offsetVars, extractVars, groupVars, resolveVars, exportVars, matchVars, emailVars, batchVars, memberVars, voiceVars, writeVars>>

ReportNames == \E status \in {200, 403}, fetched \in BOOLEAN : ReportName(status, fetched)

NextReport == ReportNames \/ ReportWrite

SpecReport == InitReport /\ [][NextReport]_vars

(***************************************************************************)
(* The writing of an output CSV: write_csv_atomic (userDetails.py), the    *)
(* with-block of export_directory_number_assignments                       *)
(* (listDirectoryNumbers.py) and write_log (groupMemberACD.py), with a     *)
(* reader that opens the output path at any moment.  A file is the         *)
(* sequence of its lines; the writer's buffer reaches the file when it is  *)
(* flushed, at the latest when the file is closed.                         *)
(***************************************************************************)
MaxReads == 2

WriteScripts == {"userDetails", "listDirectoryNumbers", "groupMemberACD"}

WriteRows == SeqsUpTo({"r1", "r2"}, 2)

\* w.writeheader() followed by the rows
FileLines(rows) == <<"header">> \o rows

\* write_csv_atomic writes to path + ".tmp", the others to the path itself
WritesToTmp(script) == script = "userDetails"

InitWrite ==
    /\ wrScript \in WriteScripts
    /\ wrRows \in WriteRows
    /\ wrOld \in {NoFile, <<"header", "old">>}
    /\ wrOut = wrOld
    /\ wrTmp = NoFile
    /\ wrBuf = << >>
    /\ wrI = 0
    /\ wrPc = "open"
    /\ wrSeen = << >>
    /\ ExecIdle
    /\ LinkIdle
    /\ OffsetIdle
    /\ ExtractIdle
    /\ GroupIdle
    /\ ResolveIdle
    /\ ExportIdle
    /\ MatchIdle
    /\ EmailIdle
    /\ BatchIdle
    /\ MemberIdle
    /\ VoiceIdle
    /\ ReportIdle

\* open(..., "w"): the file exists and is empty
WrOpen ==
    /\ wrPc = "open"
    /\ IF WritesToTmp(wrScript)
         THEN wrTmp' = << >> /\ UNCHANGED wrOut
         ELSE wrOut' = << >> /\ UNCHANGED wrTmp
    /\ wrPc' = "lines"
    /\ UNCHANGED <<wrScript, wrRows, wrOld, wrBuf, wrI, wrSeen>>
    /\ UNCHANGED <<execVars, linkVars, offsetVars, extractVars, groupVars, resolveVars, exportVars, matchVars, emailVars, batchVars, memberVars, voiceVars, reportVars>>

\* w.writeheader() / w.writerow(row): the line goes to the buffer
WrLine ==
    /\ wrPc = "lines"
    /\ wrI < Len(FileLines(wrRows))
    /\ wrBuf' = Append(wrBuf, FileLines(wrRows)[wrI + 1])
    /\ wrI' = wrI + 1
    /\ UNCHANGED <<wrScript, wrRows, wrOld, wrOut, wrTmp, wrPc, wrSeen>>
    /\ UNCHANGED <<execVars, linkVars, offsetVars, extractVars, groupVars, resolveVars, exportVars, matchVars, emailVars, batchVars, memberVars, voiceVars, reportVars>>

\* the buffer reaches the file
Flushed ==
    IF WritesToTmp(wrScript)
      THEN wrTmp' = wrTmp \o wrBuf /\ UNCHANGED wrOut
      ELSE wrOut' = wrOut \o wrBuf /\ UNCHANGED wrTmp

\* a flush of the buffer while the file is open
WrFlush ==
    /\ wrPc = "lines"
    /\ wrBuf # << >>
    /\ Flushed
    /\ wrBuf' = << >>
    /\ UNCHANGED <<wrScript, wrRows, wrOld, wrI, wrPc, wrSeen>>
    /\ UNCHANGED <<execVars, linkVars, offsetVars, extractVars, groupVars, resolveVars, exportVars, matchVars, emailVars, batchVars, memberVars, voiceVars, reportVars>>

\* the end of the with-block: the file is flushed and closed
WrClose ==
    /\ wrPc = "lines"
    /\ wrI = Len(FileLines(wrRows))
    /\ Flushed
    /\ wrBuf' = << >>
    /\ wrPc' = IF WritesToTmp(wrScript) THEN "replace" ELSE "done"
    /\ UNCHANGED <<wrScript, wrRows, wrOld, wrI, wrSeen>>
    /\ UNCHANGED <<execVars, linkVars, offsetVars, extractVars, groupVars, resolveVars, exportVars, matchVars, emailVars, batchVars, memberVars, voiceVars, reportVars>>

\* os.replace(tmp, path)
WrReplace ==
    /\ wrPc = "replace"
    /\ wrOut' = wrTmp
    /\ wrTmp' = NoFile
    /\ wrPc' = "done"
    /\ UNCHANGED <<wrScript, wrRows, wrOld, wrBuf, wrI, wrSeen>>
    /\ UNCHANGED <<execVars, linkVars, offsetVars, extractVars, groupVars, resolveVars, exportVars, matchVars, emailVars, batchVars, memberVars, voiceVars, reportVars>>

\* another process opens the output path and reads it
ReadOutput ==
    /\ wrPc # "idle"
    /\ Len(wrSeen) < MaxReads
    /\ wrSeen' = Append(wrSeen, wrOut)
    /\ UNCHANGED <<wrScript, wrRows, wrOld, wrOut, wrTmp, wrBuf, wrI, wrPc>>
    /\ UNCHANGED <<execVars, linkVars, offsetVars, extractVars, groupVars, resolveVars, exportVars, matchVars, emailVars, batchVars, memberVars, voiceVars, reportVars>>

NextWrite == WrOpen \/ WrLine \/ WrFlush \/ WrClose \/ WrReplace \/ ReadOutput

SpecWrite == InitWrite /\ [][NextWrite]_vars

(***************************************************************************)
(* Claims about the retry executor (checked under SpecExec)                *)
(***************************************************************************)
ClaimTransient == {429, 502, 503, 504}
ClaimBound == IF exKind = "_get" THEN 5 ELSE 6
AllTransient(n) == \A i \in 1..n : responses[i].status \in ClaimTransient
StatusesOf(s) == [i \in 1..Len(s) |-> s[i].status]
NoHints == \A i \in 1..Len(responses) : responses[i].retryAfter = "absent"

\* C1: at most <bound> requests are issued (5 for _get/_put, 6 for
\* backoff_request); every response before the last one had a status in
\* {429, 502, 503, 504}, so a further request only ever follows a transient
\* response; and a response with any other status is the last one: it is
\* returned at once and no request follows it.
C1_BoundedRetry ==
    /\ exRequests <= ClaimBound
    /\ Len(responses) <= exRequests
    /\ AllTransient(Len(responses) - 1)
    /\ \A i \in 1..Len(responses) :
          responses[i].status \notin ClaimTransient =>
              /\ i = Len(responses)
              /\ exRequests = i
              /\ exPc = "returned"
              /\ r = responses[i]

C1_Witness ==
    /\ exPc = "returned"
    /\ StatusesOf(responses) = <<429, 504, 502, 404>>
    /\ exRequests = 4

\* C2: once k transient responses have been followed by a non-transient one,
\* the executor has returned that response after exactly k sleeps; the i-th
\* sleep is the Retry-After value when the i-th response carried one and
\* 1.0 * 1.6^(i-1) s otherwise, never more than 10 s; [503, 503, 200]
\* without hints gives exactly the sleeps 1.0 s and 1.6 s.
C2_Series(i) ==
    CASE i = 1 -> 1000000
      [] i = 2 -> 1600000
      [] i = 3 -> 2560000
      [] i = 4 -> 4096000
      [] i = 5 -> 6553600
      [] OTHER -> 10485760
C2_Hint(h) == IF h = "3" THEN 3000000 ELSE 30000000
C2_Expected(i) ==
    LET d == IF responses[i].retryAfter = "absent"
               THEN C2_Series(i) ELSE C2_Hint(responses[i].retryAfter)
    IN  IF d > 10000000 THEN 10000000 ELSE d
C2_RetryDelays ==
    LET n == Len(responses) IN
    (n >= 1 /\ responses[n].status \notin ClaimTransient) =>
        /\ exPc = "returned"
        /\ r = responses[n]
        /\ Len(sleeps) = n - 1
        /\ \A i \in 1..(n - 1) : sleeps[i] = C2_Expected(i)
        /\ (StatusesOf(responses) = <<503, 503, 200>> /\ NoHints)
              => sleeps = <<1000000, 1600000>>

C2_Witness ==
    /\ exPc = "returned"
    /\ StatusesOf(responses) = <<503, 503, 200>>
    /\ NoHints
    /\ sleeps = <<1000000, 1600000>>
    /\ r.status = 200

\* C3: when every attempt got a transient status, the executor has returned
\* (not raised) the response of the last attempt, whose status is transient;
\* the executor raises only when a request itself failed, never because of a
\* response.
C3_SoftFail ==
    /\ (Len(responses) = ClaimBound /\ AllTransient(ClaimBound)) =>
          /\ exPc = "returned"
          /\ r = responses[ClaimBound]
          /\ r.status \in ClaimTransient
    /\ exPc = "raised" => exRequests > Len(responses)

C3_Witness ==
    /\ exPc = "returned"
    /\ Len(responses) = ClaimBound
    /\ AllTransient(ClaimBound)
    /\ r.status = 503

(***************************************************************************)
(* Claims about the Link-header pager (checked under SpecLink)             *)
(***************************************************************************)
AllOk(statuses) == \A i \in 1..Len(statuses) : statuses[i] = 200

\* C4: with N items on P pages chained by rel="next" links, the k-th page
\* request goes to the URL of page k as the server gave it, the initial
\* parameters go with the first request only, never more than P requests are
\* sent, and the fetch ends exactly when the page without a rel="next" link
\* has been read, having yielded the N items in server order.
C4_LinkPaging ==
    LET p == Len(lkSizes) IN
    AllOk(lkStatuses) =>
        /\ Len(lkLog) <= p
        /\ \A k \in 1..Len(lkLog) :
              /\ lkLog[k].url = <<PageUrlNames[k]>>
              /\ lkLog[k].params = IF k = 1 THEN "initial" ELSE "None"
        /\ lkPc = "done" <=> Len(lkLog) = p
        /\ lkPc = "done" => lkYielded = [i \in 1..SumSeq(lkSizes) |-> i]
        /\ lkPc # "raised"

C4_Witness ==
    /\ lkPc = "done"
    /\ lkSizes = <<1, 0, 2>>
    /\ lkYielded = <<1, 2, 3>>
    /\ Len(lkLog) = 3
    /\ AllOk(lkStatuses)

\* C7: when the first page request ends with a non-success status the fetch
\* has failed with an error carrying the URL and the status; it has not
\* ended normally with nothing yielded.
C7_FirstPageFailure ==
    (Len(lkStatuses) >= 1 /\ lkStatuses[1] # 200) =>
        /\ lkPc = "raised"
        /\ lkError = [url |-> <<"base">>, status |-> lkStatuses[1]]

(***************************************************************************)
(* Claims about the offset/total pager (checked under SpecOffset)          *)
(***************************************************************************)
\* C5: with totalResults = N, every answered page is followed by a request
\* at startIndex + itemsPerPage exactly when startIndex + itemsPerPage <=
\* totalResults; the loop ends (never more than max(N, 1) requests), and
\* when it has ended every one of the N items has been returned exactly
\* once, for every N and every page size.
C5_OffsetPaging ==
    AllOk(ofStatuses) =>
        /\ Len(ofLog) <= (IF ofServer.n = 0 THEN 1 ELSE ofServer.n)
        /\ Len(ofPages) = Len(ofLog)
        /\ ofPc # "raised"
        /\ \A k \in 1..Len(ofPages) :
              LET pg   == ofPages[k]
                  more == pg.start + pg.per <= pg.total
              IN  /\ pg.total = ofServer.n
                  /\ pg.start = ofLog[k]
                  /\ IF k < Len(ofPages)
                       THEN more /\ ofLog[k + 1] = pg.start + pg.per
                       ELSE IF more
                              THEN ofPc = "fetch" /\ ofStart = pg.start + pg.per
                              ELSE ofPc = "done"
        /\ ofPc = "done" => out = [i \in 1..ofServer.n |-> i]

C5_Witness ==
    /\ ofPc = "done"
    /\ ofServer.n = 4
    /\ ofServer.size = 3
    /\ ofLog = <<1, 4>>
    /\ out = <<1, 2, 3, 4>>

(***************************************************************************)
(* Claims about the item extraction (checked under SpecExtract)            *)
(***************************************************************************)
ClaimKeys ==
    CASE xtSite = "paginate"          -> <<"items", "results", "Resources">>
      [] xtSite = "get_group_members" -> <<"members", "items", "users">>
      [] OTHER                        -> <<"phoneNumbers", "numbers">>

PresentAt == {i \in 1..Len(ClaimKeys) : ClaimKeys[i] \in DOMAIN data}
NonEmptyAt == {i \in PresentAt : data[ClaimKeys[i]] # << >>}
Least(S) == CHOOSE i \in S : \A j \in S : i <= j

LastCall == gmCalls[Len(gmCalls)]
PrevCall == gmCalls[Len(gmCalls) - 1]

\* the last two calls were add_member for the same group and person
AddedTwice ==
    /\ Len(gmCalls) >= 2
    /\ PrevCall.op = "add"
    /\ LastCall.op = "add"
    /\ PrevCall.group = LastCall.group
    /\ PrevCall.person = LastCall.person

MembersNow(g) == gmGroups[g].members
TimesIn(person, g) == Cardinality({i \in 1..Len(MembersNow(g)) : MembersNow(g)[i] = person})

\* C8 as stated: two add_member calls in a row for the same (group, person)
\* both return ok = True, the second reports "already a member", and the
\* person is in the group's membership exactly once afterwards.
C8_AddTwiceSucceeds ==
    AddedTwice =>
        /\ PrevCall.ok
        /\ LastCall.ok
        /\ LastCall.detail = "already a member"
        /\ TimesIn(LastCall.person, LastCall.group) = 1

\* C8 as amended: when the first of two add_member calls in a row for the
\* same (group, person) returns ok = True, the second returns ok = True too
\* and the person is in the membership exactly once; the second call reports
\* "already a member" when the server refuses the duplicate (409, or 400
\* scimType=uniqueness for the SCIM PATCH) and "added" when the server
\* accepts it as a no-op.  When the first call fails (no such group, or a
\* directory-synced group in groupMemberAD) the second fails the same way and
\* the membership is unchanged.
C8_AddTwiceIdempotent ==
    AddedTwice =>
        IF PrevCall.ok
          THEN /\ LastCall.ok
               /\ LastCall.detail = IF gmPolicy.addExisting = "refuse"
                                      THEN "already a member" ELSE "added"
               /\ TimesIn(LastCall.person, LastCall.group) = 1
          ELSE /\ ~LastCall.ok
               /\ LastCall.detail = PrevCall.detail
               /\ gmGroups[LastCall.group] = PrevCall.before

C8_Witness ==
    /\ AddedTwice
    /\ PrevCall.ok
    /\ PrevCall.detail = "added"
    /\ LastCall.ok
    /\ LastCall.detail = "already a member"
    /\ gmPolicy.addExisting = "refuse"
    /\ MembersNow(LastCall.group) = <<"p2", "p1">>

\* the last call was delete_member for a person who was not a member
DeletedNonMember ==
    /\ Len(gmCalls) >= 1
    /\ LastCall.op = "delete"
    /\ \A i \in 1..Len(LastCall.before.members) :
          LastCall.before.members[i] # LastCall.person

\* C9 as stated: delete_member for a person who is not a member returns
\* ok = True for every group and person, and leaves the membership unchanged.
C9_DeleteNonMemberSucceeds ==
    DeletedNonMember =>
        /\ LastCall.ok
        /\ gmGroups[LastCall.group] = LastCall.before

\* C9 as amended: delete_member for a person who is not a member leaves the
\* membership unchanged and returns ok = True, except that groupMemberAD
\* refuses a group whose source is neither empty nor "local"
\* (directory-synced) with an error result.
C9_DeleteNonMemberNoOp ==
    DeletedNonMember =>
        /\ gmGroups[LastCall.group] = LastCall.before
        /\ LastCall.ok <=>
              ~(/\ gmScript = "AD"
                /\ LastCall.before.exists
                /\ LastCall.before.source \notin {"", "Local"})
        /\ LastCall.ok => LastCall.detail \in {"not a member (no-op)", "removed"}
        /\ ~LastCall.ok => LastCall.detail = "read-only"

C9_Witness ==
    /\ DeletedNonMember
    /\ gmScript = "AD"
    /\ gmPolicy.removeMissing = 400
    /\ LastCall.before.exists
    /\ LastCall.before.source = "Local"
    /\ LastCall.before.members = <<"p1">>
    /\ LastCall.person = "p2"
    /\ LastCall.ok
    /\ LastCall.detail = "not a member (no-op)"

(***************************************************************************)
(* Claims about the person resolver (checked under SpecResolve)            *)
(***************************************************************************)
\* C10: when the same email has been resolved twice with no person id
\* supplied (and the first resolution found the person), exactly one network
\* lookup was issued for it: the first resolution made the lookup, the second
\* made none and returned the same person id.
C10_ResolveOnce ==
    \A i, j \in 1..Len(rsCalls) :
        (/\ i < j
         /\ rsCalls[i].personId = ""
         /\ rsCalls[j].personId = ""
         /\ rsCalls[i].email # ""
         /\ rsCalls[i].pid # ""
         /\ rsCalls[i].email = rsCalls[j].email)
        => /\ rsCalls[i].lookups = 1
           /\ rsCalls[j].lookups = 0
           /\ rsCalls[j].pid = rsCalls[i].pid
           /\ Cardinality({k \in 1..Len(rsLookups) :
                             rsLookups[k].by = "email"
                             /\ rsLookups[k].key = rsCalls[i].email}) = 1

(***************************************************************************)
(* Claims about the memoization caches (checked under SpecCaches)          *)
(***************************************************************************)
KeptIn(old, new) == \A k \in DOMAIN old : k \in DOMAIN new /\ new[k] = old[k]

OwnerCachesKept ==
    /\ KeptIn(people_cache, people_cache')
    /\ KeptIn(workspace_cache, workspace_cache')
    /\ KeptIn(generic_owner_cache, generic_owner_cache')

\* C11 as stated: in every step, every key that has an entry in the person
\* email cache or in the people, workspace or generic owner cache keeps its
\* entry, with the same value.
C11_CacheEntriesFrozen ==
    [][KeptIn(PERSON_EMAIL_CACHE, PERSON_EMAIL_CACHE') /\ OwnerCachesKept]_vars

\* the step is a successful update_person(k, _, v) with a non-blank email v
UpdatedTo(k, v) ==
    /\ Len(rsUpdates') = Len(rsUpdates) + 1
    /\ LET u == rsUpdates'[Len(rsUpdates')]
       IN  u.person = k /\ u.ok /\ u.email = v /\ v # ""

\* the step is a resolve_person(None, email) that found person k with primary
\* email v on the server
ResolvedByEmailTo(k, v) ==
    /\ Len(rsCalls') = Len(rsCalls) + 1
    /\ LET c == rsCalls'[Len(rsCalls')]
       IN  c.personId = "" /\ c.pid = k /\ c.found = v /\ c.lookups = 1

\* C11 as amended: no step removes an entry from a cache; the entries of
\* the people, workspace and generic owner caches never change; the value
\* of a person email cache entry changes only in a step that is a successful
\* update_person for that person with a non-blank new email, which becomes
\* the value, or a by-email resolve_person that stores the primary email the
\* server reports for that person.
C11_CacheEntriesKept ==
    [][/\ OwnerCachesKept
       /\ \A k \in DOMAIN PERSON_EMAIL_CACHE :
            /\ k \in DOMAIN PERSON_EMAIL_CACHE'
            /\ PERSON_EMAIL_CACHE'[k] # PERSON_EMAIL_CACHE[k] =>
                 \/ UpdatedTo(k, PERSON_EMAIL_CACHE'[k])
                 \/ ResolvedByEmailTo(k, PERSON_EMAIL_CACHE'[k])]_vars

\* person p1 was resolved by email to a@x and then updated to b@x
C11_Witness ==
    /\ Len(rsUpdates) = 1
    /\ rsUpdates[1].person = "p1"
    /\ rsUpdates[1].email = "b@x"
    /\ rsUpdates[1].ok
    /\ \E i \in 1..Len(rsCalls) :
          rsCalls[i].personId = "" /\ rsCalls[i].pid = "p1" /\ rsCalls[i].found = "a@x"
    /\ "p1" \in DOMAIN PERSON_EMAIL_CACHE
    /\ PERSON_EMAIL_CACHE["p1"] = "b@x"

(***************************************************************************)
(* Claims about the group lookup by name (checked under SpecMatch)         *)
(***************************************************************************)
\* positions of the groups whose display name equals the requested name
\* case-insensitively, and of those whose display name contains it
ExactAt(name) ==
    {i \in 1..Len(mtGroups) : LowerStr(mtGroups[i].displayName) = LowerStr(name)}

ContainsAt(name) ==
    {i \in 1..Len(mtGroups) : IsSubstring(LowerStr(name), LowerStr(mtGroups[i].displayName))}

FirstOf(S) == CHOOSE i \in S : \A j \in S : i <= j

\* C12: every lookup of a name that has exact case-insensitive matches
\* selects the first of them in server-returned order; a lookup of a name
\* without exact match that selects a group selects the first group, in
\* server-returned order, whose display name contains the name.
C12_FirstExactMatch ==
    \A k \in 1..Len(mtFinds) :
        LET f == mtFinds[k]
        IN  IF ExactAt(f.name) # {}
              THEN f.selected = mtGroups[FirstOf(ExactAt(f.name))]
              ELSE f.selected # NoMatch =>
                     /\ ContainsAt(f.name) # {}
                     /\ f.selected = mtGroups[FirstOf(ContainsAt(f.name))]

(***************************************************************************)
(* Claims about the numbers export (checked under SpecExport)              *)
(***************************************************************************)
IndexEvents == {k \in 1..Len(enEvents) : enEvents[k].ev = "index_page"}

\* the people on the index pages that were answered with 200
PeopleRead ==
    LET okPages == Cardinality({k \in IndexEvents : enEvents[k].status = 200})
        upTo    == IF okPages * 2 <= Len(enPeople) THEN okPages * 2 ELSE Len(enPeople)
    IN  SubSeq(enPeople, 1, upTo)

\* C13: the index build is one run of consecutive page requests starting at
\* 0 that comes before every numbers request and every row; a failed index
\* page ends the build and never the export (the export is only ever ended
\* by a failed numbers request); once the build is over the reverse index
\* holds what the pages answered with 200 gave, and a row of a person
\* without owner id and name whose number is indexed gets its owner from it.
C13_IndexBuiltOnceBeforeRows ==
    /\ \A k \in IndexEvents : k - 1 \in IndexEvents \cup {0} /\ enEvents[k].at = (k - 1) * 2
    /\ \A k \in IndexEvents : k > 1 => enEvents[k - 1].status = 200
    /\ enPc # "build" => IndexEvents # {}
    /\ enPc = "raised" =>
          /\ enEvents[Len(enEvents)].ev = "numbers_page"
          /\ enEvents[Len(enEvents)].status # 200
    /\ enPc # "build" =>
          /\ phone_to_person = IndexPeople([phone |-> << >>, ext |-> << >>], PeopleRead).phone
          /\ ext_to_person = IndexPeople([phone |-> << >>, ext |-> << >>], PeopleRead).ext
    /\ \A k \in 1..Len(enWritten) :
          (/\ enWritten[k].phoneNumber \in DOMAIN phone_to_person
           /\ Upper(enWritten[k].ownerType) \in {"PERSON", "PEOPLE"}
           /\ enNumbers[k].owner.id = "" /\ enNumbers[k].owner.name = "")
          => /\ enWritten[k].ownerId = phone_to_person[enWritten[k].phoneNumber][1]
             /\ enWritten[k].ownerName = phone_to_person[enWritten[k].phoneNumber][2]

\* the first index page was read, the second one failed, and the first row
\* was resolved through the entries of the first page
C13_Witness ==
    /\ Len(enPeople) = 3
    /\ Len(enEvents) >= 4
    /\ enEvents[1] = Event("index_page", 0, 200)
    /\ enEvents[2].ev = "index_page" /\ enEvents[2].status # 200
    /\ enEvents[3] = Event("numbers_page", 0, 200)
    /\ enEvents[4].ev = "row"
    /\ enWritten[1].ownerName = "Alice"
    /\ enWritten[1].ownerId = "p1"
    /\ enNumbers[1].owner.id = ""

(***************************************************************************)
(* Claims about the email-to-id scripts (checked under SpecEmail)          *)
(***************************************************************************)
\* the id the server holds for the email of input row k
ServerIdOf(k) == KnownId(Strip(e2Input[k].email))

\* every input row has a non-blank email the server knows, and every lookup
\* that was made was answered with the server's data
AllResolve ==
    /\ \A k \in 1..Len(e2Input) : Strip(e2Input[k].email) # << >> /\ ServerIdOf(k) # << >>
    /\ \A k \in 1..Len(e2Final) : e2Final[k] \in {"ok", "skip"}

SameOrder ==
    /\ Len(e2File) = Len(e2Input)
    /\ \A k \in 1..Len(e2Input) : Strip(e2File[k].email) = Strip(e2Input[k].email)

OutIndex(k) ==
    IF e2Script = "getPersonID" THEN k
    ELSE Cardinality({j \in 1..k : Strip(e2Input[j].email) # << >>})

\* the id column a handled row must show, given only the row itself and the
\* response its own lookup ended with
ExpectedId(k) ==
    CASE e2Final[k] = "ok"      -> IF ServerIdOf(k) # << >> THEN ServerIdOf(k)
                                   ELSE <<"NOT_FOUND">>
      [] e2Final[k] = "404"     -> <<"ERROR_404">>
      [] e2Final[k] = "429"     -> <<"ERROR_429">>
      [] e2Final[k] = "connerr" -> <<"ERROR_CONNECT">>
      [] OTHER                  -> e2Input[k].personid

NoMatchRows == {k \in 1..Len(e2Final) : e2Final[k] = "ok" /\ ServerIdOf(k) = << >>}

Written(k) == e2Final[k] # "skip" \/ e2Script = "getPersonID"

RequiredColumns == {"groupId", "personId", "email", "action"}

PreconditionsHeld ==
    /\ btEnv.token
    /\ btEnv.file
    /\ (btScript = "AD" => btEnv.org)
    /\ RequiredColumns \subseteq btHeaders

NoRowFailed ==
    /\ btEnd = "returned"
    /\ \A k \in 1..Len(ops) : ops[k].result # "error"

\* C16: when the process has exited, its exit code is 0 exactly when every
\* row succeeded and every precondition (credential, input file, required
\* headers) held; otherwise it is non-zero.
C16_ExitCodeReflectsFailure ==
    btPc = "exited" => (btExit = 0 <=> (NoRowFailed /\ PreconditionsHeld))

\* C17: in a run without the bearer token, without the input file or without
\* a required column in the header line, no HTTP request is ever sent (and so
\* no mutating operation is performed).
C17_HaltsBeforeAnyRequest ==
    (~btEnv.token \/ ~btEnv.file \/ ~(RequiredColumns \subseteq btHeaders))
        => btRequests = << >>

MarkedFailed(i) == \E k \in 1..Len(ops) : ops[k].row = i /\ ops[k].result = "error"

\* C18: when the run has ended, every row whose requests failed for a
\* transient reason (503 until the retries were exhausted, or a timeout /
\* connection / TLS error) has a log entry with result "error", and every row
\* of the input file has been handled.
C18_TransientFailureKeepsBatchGoing ==
    btPc = "exited" =>
        \A i \in 1..Len(btNets) :
            btNets[i] \in {"exhausted", "timeout"} =>
                (MarkedFailed(i) /\ Len(btInput) = btLen)

\* C19: the log file written at the end of the run holds the entry of every
\* row that main handled, whether main returned or was left by an error.
C19_LogHasEveryProcessedRow ==
    btPc = "exited" => \A k \in 1..Len(ops) : InSeq(ops[k], btLog)

Recognised ==
    {<< >>, <<"a">>, <<"A">>, <<"d">>, <<"D">>}
        \cup (IF btScript = "ACD" THEN {<<"u">>, <<"U">>} ELSE {})

\* C20: every handled row whose action string is none of 'a'/'A', 'd'/'D',
\* 'u'/'U' (groupMemberACD only) and blank has a log entry with result
\* "skip", and no HTTP request was sent for it.
C20_OnlySingleLettersAct ==
    \A i \in 1..Len(btInput) :
        btInput[i].action \notin Recognised =>
            /\ \E k \in 1..Len(ops) : ops[k].row = i /\ ops[k].result = "skip"
            /\ \A k \in 1..Len(btRequests) : btRequests[k].row # i

\* C23: when main of a group-membership script returns, ops holds exactly one
\* entry per input row, in input order, and the i-th entry carries row = i
\* (1-based) and the groupId of the i-th input row.
C23_OneEntryPerRow ==
    btEnd = "returned" =>
        /\ Len(ops) = Len(btInput)
        /\ \A i \in 1..Len(ops) :
            ops[i].row = i /\ ops[i].groupId = btInput[i].groupId

\* a returned run of two rows, the first logged as an error and the second
\* as ok, with requests sent
C23_Witness ==
    /\ btEnd = "returned"
    /\ Len(btInput) = 2
    /\ Len(ops) = 2
    /\ ops[1].result = "error"
    /\ ops[2].result = "ok"
    /\ btRequests # << >>

RowEvents == {k \in 1..Len(enEvents) : enEvents[k].ev = "row"}

DetailRequests == {k \in RowEvents : enEvents[k].status # -1}

\* the owner the k-th event, a row event, is about: rows are handled in the
\* order of the numbers listing
OwnerAt(k) == enNumbers[enEvents[k].at].owner

OwnerCaches == <<people_cache, workspace_cache, generic_owner_cache>>

\* C24: (a) no two detail requests of a run are for the same owner id, the
\* failed ones included; (b) a row whose payload carries an owner name is
\* handled without a request and without a change of the three caches, and
\* the payload name is the name resolve_owner_name returns (for an owner that
\* is not a person, the name written).
C24_OneDetailRequestPerOwner ==
    /\ [](\A j, k \in DetailRequests : j # k => OwnerAt(j).id # OwnerAt(k).id)
    /\ [][(enPc = "rows" /\ enPending # << >> /\ Head(enPending).owner.name # ""
            /\ Len(enWritten') = Len(enWritten) + 1)
          => /\ OwnerCaches' = OwnerCaches
             /\ enEvents'[Len(enEvents')].status = -1
             /\ enWritten'[Len(enWritten')].ownerName = Head(enPending).owner.name]_vars

\* two rows of the same person without a payload name: the request of the
\* first failed, the second was answered from the cache without a request
C24_Witness ==
    /\ Len(enWritten) = 2
    /\ enNumbers[1].owner.id = "p1" /\ enNumbers[2].owner.id = "p1"
    /\ enNumbers[1].owner.name = "" /\ enNumbers[2].owner.name = ""
    /\ \E j, k \in RowEvents :
        /\ enEvents[j].at = 1 /\ enEvents[j].status \in {0, 404}
        /\ enEvents[k].at = 2 /\ enEvents[k].status = -1

\* C25: when the export has ended without an error, every number of the
\* organization has been yielded exactly once, in order: there is one row
\* per number of the server, for every cap the server puts on a page.
C25_EveryNumberYieldedOnce ==
    enPc = "done" =>
        /\ Len(enWritten) = Len(enNumbers)
        /\ \A k \in 1..Len(enWritten) :
            /\ enWritten[k].phoneNumber = RemoveSpaces(enNumbers[k].phoneNumber)
            /\ enWritten[k].ownerType = enNumbers[k].owner.type

(***************************************************************************)
(* Claims about is_member on its own (checked under SpecMember)            *)
(***************************************************************************)
\* C27: within one call of is_member every request after the first uses a
\* strictly larger startIndex than the request before it, whatever the
\* bodies of the 200 responses are.
C27_StartIndexGrows ==
    \A k \in 2..Len(imLog) : imLog[k] > imLog[k - 1]

(***************************************************************************)
(* Claims about the result of a membership check that failed               *)
(* (checked under SpecGroup)                                               *)
(***************************************************************************)
\* C28: delete_member returns the success result "not a member (no-op)"
\* only after a membership check that was completed (the members request
\* was answered with 200, which the server does for a group it has) and
\* found the person absent; a check that could not be completed is never
\* reported as success.
C28_NoOpOnlyAfterCompletedCheck ==
    \A k \in 1..Len(gmCalls) :
        (gmCalls[k].op = "delete" /\ gmCalls[k].detail = "not a member (no-op)") =>
            /\ ServerGetGroup(gmCalls[k].before) = 200
            /\ ~InSeq(gmCalls[k].person, gmCalls[k].before.members)

(***************************************************************************)
(* Claims about the voicemail scripts (checked under SpecVoice)            *)
(***************************************************************************)
\* C26: with voicemail turned off, the body build_voicemail_body returns has
\* enabled false, storageType INTERNAL, mwiEnabled false, externalEmail
\* empty, the email copy disabled with an empty emailId and notifications
\* disabled, whatever the mode, the destination and the overrides are.
C26_OffBodyIsAllOff ==
    \A k \in 1..Len(vmRequests) :
        (vmRequests[k].method = "PUT" /\ vmArgs.vm = "off") =>
            /\ vmRequests[k].body.enabled = FALSE
            /\ vmRequests[k].body.storageType = "INTERNAL"
            /\ vmRequests[k].body.mwiEnabled = FALSE
            /\ vmRequests[k].body.externalEmail = << >>
            /\ vmRequests[k].body.emailCopyEnabled = FALSE
            /\ vmRequests[k].body.emailId = << >>
            /\ vmRequests[k].body.notifications.enabled = FALSE

\* C29: no HTTP request is sent with a mark of the id-resolution step
\* (NOT_FOUND, ERROR_<status>, ERROR_CONNECT) as the person id.
C29_NoRequestForSentinelId ==
    \A k \in 1..Len(vmRequests) :
        vmRequests[k].person_id \notin {<<"NOT_FOUND">>, <<"ERROR_404">>, <<"ERROR_429">>, <<"ERROR_CONNECT">>}

(***************************************************************************)
(* Claims about the group report (checked under SpecReport)                *)
(***************************************************************************)
\* C30: in groups.csv the memberCount of every row equals the number of
\* members fetched for that row's group in this run, also when the same
\* group is requested by more than one input row.
C30_MemberCountIsFetchedCount ==
    grPc = "done" =>
        \A k \in 1..Len(grFile) : grFile[k].memberCount = grFetched[k]

C21_ReaderNeverSeesPartialFile ==
    wrPc = "done" =>
        \A k \in 1..Len(wrSeen) :
            \/ wrSeen[k] = wrOld
            \/ wrSeen[k] = <<"header">> \o wrRows

====
